---- MODULE Spec2Model ----
(***************************************************************************)
(* A model of jlserve: the app registry (jlserve/decorator.py), the        *)
(* contract validator (jlserve/validator.py) and the dispatch binder       *)
(* (jarvis/server.py).                                                     *)
(*                                                                         *)
(* Python values are records [t, s, elts]: t is type(x).__name__, s the    *)
(* characters of a str, elts the elements of a list or tuple.  Exceptions  *)
(* are records whose fields are the values interpolated into the message.  *)
(***************************************************************************)
EXTENDS Integers, Sequences, FiniteSets, TLC

VARIABLES
    registered_app,  \* decorator.py: the module global _registered_app
    classes,         \* the user's classes: class name -> attributes of the class object
    closure,         \* per thread: the decorator closure returned by app(name, requirements)
    pc,              \* per thread: position inside decorator(cls)
    result,          \* per thread: outcome of the last decorator(cls) call
    validated,       \* the last validate_app(cls) call: its argument and its outcome
    instances,       \* the app objects created so far: attribute name -> value, per object
    services,        \* the FastAPI applications returned by create_app
    bound,           \* the last create_app(app_cls) call: its argument and its outcome
    response,        \* the response to the last request
    issued,          \* per service: the client's total of the values it posted to /increment
    inflight,        \* per request: how far the server's event loop has taken it
    file,            \* the Python file given to the command line: its presence, suffix and syntax tree
    extracted,       \* the last extract_requirements_from_file call: what it returned or raised
    loaded,          \* the last load_app_class call: what it returned or raised
    env,             \* the process environment: cache directory, build marker, installer
    cli              \* the last run of a command: the steps it took and its exit code

regVars == <<registered_app, classes, closure, pc, result>>
serveVars == <<instances, services, bound, response, issued, inflight>>
fileVars == <<file, extracted, loaded, env, cli>>
nonRegVars == <<validated, serveVars, fileVars>>
vars == <<regVars, nonRegVars>>

None == "None"

-----------------------------------------------------------------------------
(* Bounds *)

MaxReqLen == 3

\* the number of methods in the body of a generated class
MaxMethods == 2

\* the number of create_app calls that return a service
MaxServices == 1

\* the largest total a client posts to /increment of one service
MaxCount == 10

\* the number of times setup() is invoked on one app object
MaxSetupCalls == 2

\* the number of statements at the top level of a generated file
MaxStmts == 2

\* the number of requests a client sends to the services
MaxRequests == 2

-----------------------------------------------------------------------------
(* Python values *)

PyStr(chars) == [t |-> "str", s |-> chars, elts |-> <<>>]
PyInt(digits) == [t |-> "int", s |-> digits, elts |-> <<>>]
PyNone == [t |-> "NoneType", s |-> <<>>, elts |-> <<>>]
PyList(es) == [t |-> "list", s |-> <<>>, elts |-> es]

Whitespace == {" "}

\* str.strip(): drop leading and trailing whitespace
RECURSIVE LStrip(_)
LStrip(chars) ==
    IF chars # <<>> /\ Head(chars) \in Whitespace THEN LStrip(Tail(chars)) ELSE chars

RECURSIVE RStrip(_)
RStrip(chars) ==
    IF chars # <<>> /\ chars[Len(chars)] \in Whitespace
    THEN RStrip(SubSeq(chars, 1, Len(chars) - 1))
    ELSE chars

strip(chars) == RStrip(LStrip(chars))

\* Python truthiness of the values used here
Truthy(v) ==
    CASE v.t = "NoneType" -> FALSE
      [] v.t = "str" -> v.s # <<>>
      [] v.t \in {"list", "tuple"} -> v.elts # <<>>
      [] OTHER -> TRUE

\* the class object that a `class` statement creates, before any class decorator runs
NewClass(name, methods) ==
    [name |-> name, jlserve_app |-> FALSE, jlserve_app_name |-> None,
     jlserve_requirements |-> PyNone, methods |-> methods]

-----------------------------------------------------------------------------
(* Inputs *)

Threads == {"main", "other"}
MainThread == "main"

ClassNames == {"FirstApp", "SecondApp"}

NameArgs == {None, "", "CustomName"}

\* every value passed as `requirements`: None, a str, a tuple, and the lists
\* built from strings, blank strings, an int and None
ReqArgs ==
    LET ReqElements ==
            { PyStr(<<"t">>), PyStr(<<"n">>), PyStr(<<" ", "n">>), PyStr(<<>>),
              PyStr(<<" ", " ">>), PyInt(<<"1", "2", "3">>), PyNone }
    IN  {PyNone, PyStr(<<"t">>), [t |-> "tuple", s |-> <<>>, elts |-> <<PyStr(<<"t">>)>>]}
        \cup {PyList(es) : es \in UNION { [1..n -> ReqElements] : n \in 0..MaxReqLen }}

\* a few of them, for the specifications that are not about the requirements check
ReqArgsSmall ==
    { PyNone, PyList(<<>>), PyList(<<PyStr(<<"t">>)>>),
      PyList(<<PyStr(<<"t">>), PyStr(<<>>)>>), PyStr(<<"t">>) }

-----------------------------------------------------------------------------
(* Exceptions *)

MultipleAppsError(existing, attempted) ==
    [exc |-> "MultipleAppsError", cls |-> "", existing |-> existing, attempted |-> attempted,
     index |-> -1, typename |-> ""]

ValueErrorNotList(typename) ==
    [exc |-> "ValueError: requirements must be a list", cls |-> "", existing |-> "",
     attempted |-> "", index |-> -1, typename |-> typename]

ValueErrorNotString(i, typename) ==
    [exc |-> "ValueError: requirements[i] must be a string", cls |-> "", existing |-> "",
     attempted |-> "", index |-> i, typename |-> typename]

ValueErrorEmpty(i) ==
    [exc |-> "ValueError: requirements[i] must be a non-empty string", cls |-> "",
     existing |-> "", attempted |-> "", index |-> i, typename |-> ""]

\* no exception: the call returned; cls is the class a decorator call returned
Returned(cls) ==
    [exc |-> "ok", cls |-> cls, existing |-> "", attempted |-> "", index |-> -1, typename |-> ""]
Ok == Returned("")
NoResult ==
    [exc |-> "none", cls |-> "", existing |-> "", attempted |-> "", index |-> -1, typename |-> ""]

-----------------------------------------------------------------------------
(* jlserve/decorator.py *)

\* decorator.py:37  the guard `_registered_app is not None`
AlreadyRegisteredMut(seen) == FALSE
AlreadyRegistered(seen) == seen # None

\* decorator.py:50-58  the first element, in list order, that is rejected;
\* enumerate() counts from 0
RECURSIVE CheckElementsFrom(_, _)
CheckElementsFrom(elts, k) ==
    IF k > Len(elts) THEN Ok
    ELSE IF elts[k].t # "str" THEN ValueErrorNotString(k - 1, elts[k].t)
    ELSE IF strip(elts[k].s) = <<>> THEN ValueErrorEmpty(k - 1)
    ELSE CheckElementsFrom(elts, k + 1)

\* a validation that reports the last offending element instead of the first
RECURSIVE CheckElementsBackFrom(_, _)
CheckElementsBackFrom(elts, k) ==
    IF k < 1 THEN Ok
    ELSE IF elts[k].t # "str" THEN ValueErrorNotString(k - 1, elts[k].t)
    ELSE IF strip(elts[k].s) = <<>> THEN ValueErrorEmpty(k - 1)
    ELSE CheckElementsBackFrom(elts, k - 1)

\* decorator.py:44-58  "Validate requirements parameter"
ValidateRequirementsMut(requirements) ==
    IF requirements.t = "NoneType" THEN Ok
    ELSE IF requirements.t # "list" THEN ValueErrorNotList(requirements.t)
    ELSE CheckElementsBackFrom(requirements.elts, Len(requirements.elts))
ValidateRequirements(requirements) ==
    IF requirements.t = "NoneType" THEN Ok
    ELSE IF requirements.t # "list" THEN ValueErrorNotList(requirements.t)
    ELSE CheckElementsFrom(requirements.elts, 1)

\* a marking that stores each requirement in trimmed form
MarkedTrimmed(cls, name, requirements) ==
    [cls EXCEPT !.jlserve_app = TRUE,
                !.jlserve_app_name = IF name \notin {None, ""} THEN name ELSE cls.name,
                !.jlserve_requirements =
                    IF Truthy(requirements)
                    THEN PyList([i \in 1..Len(requirements.elts) |->
                                   IF requirements.elts[i].t = "str"
                                   THEN PyStr(strip(requirements.elts[i].s))
                                   ELSE requirements.elts[i]])
                    ELSE PyList(<<>>)]
\* decorator.py:60-62  cls._jlserve_app, cls._jlserve_app_name, cls._jlserve_requirements
Marked(cls, name, requirements) ==
    [cls EXCEPT !.jlserve_app = TRUE,
                !.jlserve_app_name = IF name \notin {None, ""} THEN name ELSE cls.name,
                !.jlserve_requirements =
                    IF Truthy(requirements) THEN requirements ELSE PyList(<<>>)]

MarkApp(cls, name, requirements) ==
    [classes EXCEPT ![cls] = Marked(classes[cls], name, requirements)]

\* a closure is "pending" from the call app(...) until it is applied to the class
NoClosure == [name |-> None, requirements |-> PyNone, state |-> "none"]
Pending(name, requirements) == [name |-> name, requirements |-> requirements, state |-> "pending"]

\* decorator.py:12-66  app(name, requirements) returns the closure `decorator`
app(t, name, requirements) ==
    /\ pc[t].at = "idle"
    /\ closure[t].state # "pending"
    /\ closure' = [closure EXCEPT ![t] = Pending(name, requirements)]
    /\ UNCHANGED <<registered_app, classes, pc, result, nonRegVars>>

\* what decorator(cls) raises or returns when it runs without interruption
DecoratorOutcome(t, cls) ==
    IF AlreadyRegistered(registered_app)
    THEN MultipleAppsError(classes[registered_app].name, classes[cls].name)
    ELSE ValidateRequirements(closure[t].requirements)

\* a decorator that sets the class attributes before it checks anything
decorator_marking_first(t, cls) ==
    /\ pc[t].at = "idle"
    /\ closure[t].state = "pending"
    /\ classes' = MarkApp(cls, closure[t].name, closure[t].requirements)
    /\ IF DecoratorOutcome(t, cls) = Ok
       THEN /\ registered_app' = cls
            /\ result' = [result EXCEPT ![t] = Returned(cls)]
       ELSE /\ result' = [result EXCEPT ![t] = DecoratorOutcome(t, cls)]
            /\ UNCHANGED registered_app
    /\ closure' = [closure EXCEPT ![t].state = "applied"]
    /\ UNCHANGED <<pc, nonRegVars>>
\* decorator.py:34-64  decorator(cls), run as one uninterrupted call
decorator(t, cls) ==
    /\ pc[t].at = "idle"
    /\ closure[t].state = "pending"
    /\ IF DecoratorOutcome(t, cls) = Ok
       THEN /\ classes' = MarkApp(cls, closure[t].name, closure[t].requirements)
            /\ registered_app' = cls
            /\ result' = [result EXCEPT ![t] = Returned(cls)]
       ELSE /\ result' = [result EXCEPT ![t] = DecoratorOutcome(t, cls)]
            /\ UNCHANGED <<registered_app, classes>>
    /\ closure' = [closure EXCEPT ![t].state = "applied"]
    /\ UNCHANGED <<pc, nonRegVars>>

\* decorator.py:34-42  a thread enters decorator(cls) and evaluates the guard of
\* line 37; other threads may run before it reaches line 45
DecoratorEnter(t, cls) ==
    /\ pc[t].at = "idle"
    /\ closure[t].state = "pending"
    /\ IF AlreadyRegistered(registered_app)
       THEN /\ result' = [result EXCEPT ![t] =
                   MultipleAppsError(classes[registered_app].name, classes[cls].name)]
            /\ closure' = [closure EXCEPT ![t].state = "applied"]
            /\ UNCHANGED pc
       ELSE /\ pc' = [pc EXCEPT ![t] = [at |-> "L45", cls |-> cls]]
            /\ UNCHANGED <<result, closure>>
    /\ UNCHANGED <<registered_app, classes, nonRegVars>>

\* decorator.py:44-58  the thread validates its own requirements argument
DecoratorValidate(t) ==
    /\ pc[t].at = "L45"
    /\ IF ValidateRequirements(closure[t].requirements) = Ok
       THEN /\ pc' = [pc EXCEPT ![t].at = "L60"]
            /\ UNCHANGED <<result, closure>>
       ELSE /\ result' = [result EXCEPT ![t] = ValidateRequirements(closure[t].requirements)]
            /\ closure' = [closure EXCEPT ![t].state = "applied"]
            /\ pc' = [pc EXCEPT ![t] = [at |-> "idle", cls |-> None]]
    /\ UNCHANGED <<registered_app, classes, nonRegVars>>

\* decorator.py:60-64  the thread marks the class, stores it in the registry and returns
DecoratorAssign(t) ==
    /\ pc[t].at = "L60"
    /\ classes' = MarkApp(pc[t].cls, closure[t].name, closure[t].requirements)
    /\ registered_app' = pc[t].cls
    /\ result' = [result EXCEPT ![t] = Returned(pc[t].cls)]
    /\ closure' = [closure EXCEPT ![t].state = "applied"]
    /\ pc' = [pc EXCEPT ![t] = [at |-> "idle", cls |-> None]]
    /\ UNCHANGED nonRegVars

\* a reset that also removes the endpoint markings of the class it discards
reset_registry_untagging(t) ==
    /\ pc[t].at = "idle"
    /\ closure[t].state # "pending"
    /\ registered_app' = None
    /\ classes' =
          IF registered_app = None THEN classes
          ELSE [classes EXCEPT ![registered_app].methods =
                   [n \in DOMAIN @ |-> [@[n] EXCEPT !.jlserve_endpoint = FALSE]]]
    /\ result' = [result EXCEPT ![t] = NoResult]
    /\ UNCHANGED <<closure, pc, nonRegVars>>
\* decorator.py:116-119  _reset_registry()
reset_registry(t) ==
    /\ pc[t].at = "idle"
    /\ closure[t].state # "pending"
    /\ registered_app' = None
    /\ result' = [result EXCEPT ![t] = NoResult]
    /\ UNCHANGED <<classes, closure, pc, nonRegVars>>

\* decorator.py:94-96  get_registered_app()
get_registered_app == registered_app

\* decorator.py:82-89  endpoint(path) applied to a method: the wrapper keeps the
\* method's name, signature and annotations (functools.wraps) and carries the
\* marking and the resolved path
endpoint(path, name, params, hints, body) ==
    [name |-> name, jlserve_endpoint |-> TRUE,
     jlserve_endpoint_path |-> IF path \notin {None, ""} THEN path ELSE "/" \o name,
     params |-> params, hints |-> hints, body |-> body]

\* a method of the class body that carries no @endpoint()
plain_method(name, params, hints, body) ==
    [name |-> name, jlserve_endpoint |-> FALSE, jlserve_endpoint_path |-> None,
     params |-> params, hints |-> hints, body |-> body]

\* dir(cls) lists attribute names in sorted order; these are the method names
\* used by the classes of this model, sorted as Python sorts strings
AttrOrder ==
    <<"__init__", "add", "download_weights", "failing", "get_count", "helper", "increment",
      "m1", "m2", "m3", "multiply", "predict", "process", "setup">>

\* decorator.py:99-113  get_endpoint_methods(cls)
get_endpoint_methods(cls) ==
    LET names == SelectSeq(AttrOrder,
                     LAMBDA n : n \in DOMAIN cls.methods /\ cls.methods[n].jlserve_endpoint)
    IN  [i \in 1..Len(names) |-> cls.methods[names[i]]]

-----------------------------------------------------------------------------
(* jlserve/validator.py *)

EndpointValidationError(cause, subject, detail, other) ==
    [exc |-> "EndpointValidationError", cause |-> cause, subject |-> subject,
     detail |-> detail, other |-> other]

Valid == [exc |-> "ok", cause |-> "", subject |-> "", detail |-> "", other |-> ""]

NoValidation == [cls |-> None, outcome |-> Valid]

PydanticModels == {"Input", "Output"}

\* validator.py:149-154  _is_pydantic_model(type_hint)
is_pydantic_model(type_hint) == type_hint \in PydanticModels

\* a first check that asks the registry instead of the class
validate_is_registered_app(cls) ==
    IF registered_app = None \/ classes[registered_app].name # cls.name
    THEN EndpointValidationError("must be decorated with @jlserve.app()", cls.name, "", "")
    ELSE Valid
\* validator.py:31-40
validate_is_jlserve_app(cls) ==
    IF ~cls.jlserve_app
    THEN EndpointValidationError("must be decorated with @jlserve.app()", cls.name, "", "")
    ELSE Valid

\* validator.py:43-53
validate_has_endpoint_methods(cls) ==
    IF get_endpoint_methods(cls) = <<>>
    THEN EndpointValidationError(
             "must have at least one method decorated with @jlserve.endpoint()",
             cls.name, "", "")
    ELSE Valid

\* validator.py:69-96
validate_method_type_hints(method) ==
    IF Len(method.params) < 2
    THEN EndpointValidationError("must accept an input parameter with a type hint",
                                 method.name, "", "")
    ELSE IF method.params[2] \notin DOMAIN method.hints
    THEN EndpointValidationError("must have a type hint for input parameter",
                                 method.name, method.params[2], "")
    ELSE IF "return" \notin DOMAIN method.hints
    THEN EndpointValidationError("must have a return type hint", method.name, "", "")
    ELSE Valid

\* dict.get(key): None when the key is absent
hints_get(hints, key) == IF key \in DOMAIN hints THEN hints[key] ELSE None

\* validator.py:99-114
validate_method_input_is_pydantic_model(method) ==
    LET input_type == hints_get(method.hints, method.params[2])
    IN  IF input_type = None \/ ~is_pydantic_model(input_type)
        THEN EndpointValidationError("input type must be a Pydantic BaseModel subclass",
                                     method.name, input_type, "")
        ELSE Valid

\* validator.py:117-129
validate_method_output_is_pydantic_model(method) ==
    LET output_type == hints_get(method.hints, "return")
    IN  IF output_type = None \/ ~is_pydantic_model(output_type)
        THEN EndpointValidationError("return type must be a Pydantic BaseModel subclass",
                                     method.name, output_type, "")
        ELSE Valid

\* the checks of one method with the input type examined before the hints
validate_one_method_types_first(method) ==
    IF Len(method.params) >= 2 /\ method.params[2] \in DOMAIN method.hints
          /\ validate_method_input_is_pydantic_model(method) # Valid
    THEN validate_method_input_is_pydantic_model(method)
    ELSE IF validate_method_type_hints(method) # Valid
    THEN validate_method_type_hints(method)
    ELSE validate_method_output_is_pydantic_model(method)
\* validator.py:63-66  the three checks of one method, in order
validate_one_method(method) ==
    IF validate_method_type_hints(method) # Valid
    THEN validate_method_type_hints(method)
    ELSE IF validate_method_input_is_pydantic_model(method) # Valid
    THEN validate_method_input_is_pydantic_model(method)
    ELSE validate_method_output_is_pydantic_model(method)

RECURSIVE validate_methods_from(_, _)
validate_methods_from(methods, i) ==
    IF i > Len(methods) THEN Valid
    ELSE IF validate_one_method(methods[i]) # Valid THEN validate_one_method(methods[i])
    ELSE validate_methods_from(methods, i + 1)

\* validator.py:56-66
validate_endpoint_methods(cls) == validate_methods_from(get_endpoint_methods(cls), 1)

\* validator.py:139-146  `paths` maps each path seen so far to its method name
RECURSIVE duplicate_paths_from(_, _, _)
duplicate_paths_from(methods, i, paths) ==
    IF i > Len(methods) THEN Valid
    ELSE LET path == methods[i].jlserve_endpoint_path
         IN  IF path \in DOMAIN paths
             THEN EndpointValidationError("Duplicate endpoint path", path,
                                          paths[path], methods[i].name)
             ELSE duplicate_paths_from(methods, i + 1,
                      [q \in DOMAIN paths \cup {path} |->
                          IF q = path THEN methods[i].name ELSE paths[q]])

\* the duplicate check keyed on the default path of each method, ignoring overrides
validate_no_duplicate_paths_default_only(cls) ==
    LET methods == get_endpoint_methods(cls)
    IN  duplicate_paths_from(
            [i \in 1..Len(methods) |->
                [methods[i] EXCEPT !.jlserve_endpoint_path = "/" \o methods[i].name]],
            1, <<>>)
\* validator.py:132-146
validate_no_duplicate_paths(cls) == duplicate_paths_from(get_endpoint_methods(cls), 1, <<>>)

\* validator.py:12-28  validate_app(cls); the checks with the duplicate-path
\* check moved ahead of the per-method checks
validate_app_dup_first(cls) ==
    IF validate_is_jlserve_app(cls) # Valid THEN validate_is_jlserve_app(cls)
    ELSE IF validate_has_endpoint_methods(cls) # Valid THEN validate_has_endpoint_methods(cls)
    ELSE IF validate_no_duplicate_paths(cls) # Valid THEN validate_no_duplicate_paths(cls)
    ELSE validate_endpoint_methods(cls)
validate_app(cls) ==
    IF validate_is_jlserve_app(cls) # Valid THEN validate_is_jlserve_app(cls)
    ELSE IF validate_has_endpoint_methods(cls) # Valid THEN validate_has_endpoint_methods(cls)
    ELSE IF validate_endpoint_methods(cls) # Valid THEN validate_endpoint_methods(cls)
    ELSE validate_no_duplicate_paths(cls)

\* validate_download_weights_method(cls), as validator.py:28 and
\* validator_test.py:503-611 call it: the class defines download_weights, it is
\* callable, it accepts `self` only, and its return annotation, when it has
\* one, is None; the error for extra parameters carries the parameters found
validate_download_weights_method(cls) ==
    LET hook == "download_weights"
    IN  IF hook \notin DOMAIN cls.methods
        THEN EndpointValidationError("must define a " \o hook \o "() method", cls.name, "", "")
        ELSE IF cls.methods[hook].body = "not a method"
        THEN EndpointValidationError(hook \o " must be a method", cls.name, "", "")
        ELSE IF cls.methods[hook].params # <<"self">>
        THEN EndpointValidationError(hook \o "() must only accept 'self'", cls.name,
                                     cls.methods[hook].params, "")
        ELSE IF hints_get(cls.methods[hook].hints, "return") \notin {None, "None"}
        THEN EndpointValidationError(hook \o "() must return None", cls.name,
                                     cls.methods[hook].hints["return"], "")
        ELSE Valid

\* validator.py:12-28  validate_app(cls, require_download_weights=True)
validate_app_strict(cls) ==
    IF validate_app(cls) # Valid THEN validate_app(cls)
    ELSE validate_download_weights_method(cls)

\* a call validate_app(cls, require_download_weights=True) on one of the user's classes
ValidateAppStrict(c) ==
    /\ validated' = [cls |-> c, outcome |-> validate_app_strict(classes[c])]
    /\ UNCHANGED <<regVars, serveVars, fileVars>>

\* a call validate_app(cls) on one of the user's classes
ValidateApp(c) ==
    /\ validated' = [cls |-> c, outcome |-> validate_app(classes[c])]
    /\ UNCHANGED <<regVars, serveVars, fileVars>>

-----------------------------------------------------------------------------
(* The user's code: method bodies of the app classes in jarvis/server_test.py *)

Ran(ret, self) == [raised |-> FALSE, message |-> "", result |-> ret, self |-> self]
Raised(message, self) == [raised |-> TRUE, message |-> message, result |-> 0, self |-> self]

SetAttr(self, attr, v) == [a \in DOMAIN self \cup {attr} |-> IF a = attr THEN v ELSE self[a]]

\* one call of a method body on the object `self` with input value `value`
RunBody(body, self, value) ==
    CASE body = "init_count" -> Ran(0, SetAttr(self, "count", 0))
      [] body = "increment" -> Ran(self["count"] + value,
                                   SetAttr(self, "count", self["count"] + value))
      [] body = "get_count" -> Ran(self["count"], self)
      [] body = "failing" -> Raised("boom", self)
      [] body = "setup_multiplier" -> Ran(0, SetAttr(self, "multiplier", 10))
      [] body = "setup_raises" -> Raised("Setup failed!", self)
      [] body = "download_raises" -> Raised("Network error downloading model", self)
      [] body = "scale" ->
            IF "multiplier" \in DOMAIN self
            THEN Ran(value * self["multiplier"], self)
            ELSE Raised("object has no attribute 'multiplier'", self)
      [] OTHER -> Ran(value, self)

\* app_cls(): a new object, initialised by __init__ when the class defines one
Construct(cls) ==
    [cls |-> cls.name,
     attrs |-> IF "__init__" \in DOMAIN cls.methods
               THEN RunBody(cls.methods["__init__"].body, <<>>, 0).self
               ELSE <<>>,
     setup_calls |-> 0,
     setup_done |-> FALSE]

-----------------------------------------------------------------------------
(* jarvis/server.py *)

EndpointSetupError(e) == [exc |-> "EndpointSetupError", message |-> <<"setup() failed: ", e>>]
NoError == [exc |-> "none", message |-> <<>>]

\* the requests of the clients, numbered as they arrive
Requests == 1..MaxRequests
NoRequest == [state |-> "none", service |-> 0, path |-> "", value |-> 0, self |-> <<>>]


\* a route keyed by the method's name, whatever path its decorator resolved
register_endpoint_route_by_name(method, app_instance) ==
    [path |-> "/" \o method.name,
     input_type |-> method.hints[method.params[2]],
     output_type |-> method.hints["return"],
     captured_method_name |-> method.name,
     captured_instance |-> app_instance]

\* server.py:55-84  _register_endpoint_route: the route and what its handler captures
register_endpoint_route(method, app_instance) ==
    [path |-> method.jlserve_endpoint_path,
     input_type |-> method.hints[method.params[2]],
     output_type |-> method.hints["return"],
     captured_method_name |-> method.name,
     captured_instance |-> app_instance]

\* server.py:14-52  create_app with the object created ahead of validation
create_app_instance_first(c) ==
    /\ Len(services) < MaxServices
    /\ instances' = Append(instances, Construct(classes[c]))
    /\ IF validate_app(classes[c]) # Valid
       THEN /\ bound' = [cls |-> c, outcome |-> validate_app(classes[c]), service |-> 0]
            /\ UNCHANGED <<services, issued>>
       ELSE LET endpoint_methods == get_endpoint_methods(classes[c])
                app_instance == Len(instances) + 1
            IN  /\ services' = Append(services,
                       [cls |-> c,
                        title |-> classes[c].jlserve_app_name,
                        instance |-> app_instance,
                        routes |-> [i \in 1..Len(endpoint_methods) |->
                            register_endpoint_route(endpoint_methods[i], app_instance)],
                        state |-> "created",
                        error |-> NoError])
                /\ issued' = Append(issued, 0)
                /\ bound' = [cls |-> c, outcome |-> Valid, service |-> Len(services) + 1]
    /\ UNCHANGED <<regVars, validated, inflight, fileVars, response>>

\* server.py:14-52  create_app(app_cls)
create_app(c) ==
    /\ IF validate_app(classes[c]) # Valid
       THEN /\ bound' = [cls |-> c, outcome |-> validate_app(classes[c]), service |-> 0]
            /\ UNCHANGED <<instances, services, issued>>
       ELSE LET endpoint_methods == get_endpoint_methods(classes[c])
                app_instance == Len(instances) + 1
            IN  /\ Len(services) < MaxServices
                /\ instances' = Append(instances, Construct(classes[c]))
                /\ services' = Append(services,
                       [cls |-> c,
                        title |-> classes[c].jlserve_app_name,
                        instance |-> app_instance,
                        routes |-> [i \in 1..Len(endpoint_methods) |->
                            register_endpoint_route(endpoint_methods[i], app_instance)],
                        state |-> "created",
                        error |-> NoError])
                /\ issued' = Append(issued, 0)
                /\ bound' = [cls |-> c, outcome |-> Valid, service |-> Len(services) + 1]
    /\ UNCHANGED <<regVars, validated, inflight, fileVars, response>>

\* server.py:38  hasattr(app_instance, "setup") and callable(app_instance.setup)
has_setup(cls) == "setup" \in DOMAIN cls.methods /\ cls.methods["setup"].body # "not a method"

\* a lifespan that yields without calling setup()
lifespan_startup_no_setup(cls, obj) == [obj |-> obj, error |-> NoError]

\* a lifespan that calls setup() and swallows what it raises
lifespan_startup_swallow(cls, obj) ==
    IF has_setup(cls)
    THEN LET run == RunBody(cls.methods["setup"].body, obj.attrs, 0)
         IN  [obj |-> [obj EXCEPT !.attrs = run.self,
                                  !.setup_calls = @ + 1,
                                  !.setup_done = @ \/ ~run.raised],
              error |-> NoError]
    ELSE [obj |-> obj, error |-> NoError]

\* server.py:36-44  lifespan up to `yield`: what startup does to the app object,
\* and the error it raises
lifespan_startup(cls, obj) ==
    IF has_setup(cls)
    THEN LET run == RunBody(cls.methods["setup"].body, obj.attrs, 0)
         IN  [obj |-> [obj EXCEPT !.attrs = run.self,
                                  !.setup_calls = @ + 1,
                                  !.setup_done = @ \/ ~run.raised],
              error |-> IF run.raised THEN EndpointSetupError(run.message) ELSE NoError]
    ELSE [obj |-> obj, error |-> NoError]

\* server.py:35-46  the server (uvicorn.run, or a test client used as a context
\* manager) enters the lifespan of service s before it serves any request: the
\* service is ready when the lifespan reaches `yield`, and failed when it raises.
\* A service that was shut down, or failed, may be started again.
lifespan(s) ==
    /\ s \in 1..Len(services)
    /\ services[s].state \in {"created", "stopped", "failed"}
    /\ LET cls == classes[services[s].cls]
           obj == instances[services[s].instance]
           up == lifespan_startup(cls, obj)
       IN  /\ has_setup(cls) => obj.setup_calls < MaxSetupCalls
           /\ instances' = [instances EXCEPT ![services[s].instance] = up.obj]
           /\ services' = [services EXCEPT
                             ![s].state = IF up.error = NoError THEN "ready" ELSE "failed",
                             ![s].error = up.error]
    /\ UNCHANGED <<regVars, validated, inflight, fileVars, bound, response, issued>>

\* server.py:44-46  the server shuts service s down: the lifespan resumes after
\* `yield` and returns
lifespan_exit(s) ==
    /\ s \in 1..Len(services)
    /\ services[s].state = "ready"
    /\ services' = [services EXCEPT ![s].state = "stopped"]
    /\ UNCHANGED <<regVars, validated, inflight, fileVars, instances, bound, response, issued>>

\* the first route registered for the path
RouteFor(service, path) ==
    service.routes[CHOOSE i \in 1..Len(service.routes) :
                      /\ service.routes[i].path = path
                      /\ \A j \in 1..(i - 1) : service.routes[j].path # path]

\* the call without the try/except: what the method raises leaves the handler
call_endpoint_no_except(body, self, value) ==
    LET run == RunBody(body, self, value)
    IN  IF run.raised
        THEN [status |-> 0, result |-> 0, detail |-> "", self |-> run.self]
        ELSE [status |-> 200, result |-> run.result, detail |-> "", self |-> run.self]

\* server.py:73-80  the body of handler(input_data): the call and its try/except
call_endpoint(body, self, value) ==
    LET run == RunBody(body, self, value)
    IN  IF run.raised
        THEN [status |-> 500, result |-> 0, detail |-> run.message, self |-> run.self]
        ELSE [status |-> 200, result |-> run.result, detail |-> "", self |-> run.self]

\* a handler that creates the app object anew for each request
handler_new_instance(s, path, value) ==
    /\ s \in 1..Len(services)
    /\ services[s].state = "ready"
    /\ \E i \in 1..Len(services[s].routes) : services[s].routes[i].path = path
    /\ path = "/increment" => issued[s] + value <= MaxCount
    /\ LET route == RouteFor(services[s], path)
           cls == classes[services[s].cls]
           out == call_endpoint(cls.methods[route.captured_method_name].body,
                                Construct(cls).attrs, value)
       IN  response' = [service |-> s, path |-> path, status |-> out.status,
                        result |-> out.result, detail |-> out.detail]
    /\ issued' = [issued EXCEPT ![s] = IF path = "/increment" THEN @ + value ELSE @]
    /\ UNCHANGED <<regVars, validated, inflight, fileVars, instances, services, bound>>

\* server.py:70-81  a POST of {"value": value} to `path` of service s.  The
\* server routes requests only between startup and shutdown of the lifespan.
handler(s, path, value) ==
    /\ s \in 1..Len(services)
    /\ services[s].state = "ready"
    /\ \E i \in 1..Len(services[s].routes) : services[s].routes[i].path = path
    /\ path = "/increment" => issued[s] + value <= MaxCount
    /\ LET route == RouteFor(services[s], path)
           obj == instances[route.captured_instance]
           endpoint_method == classes[obj.cls].methods[route.captured_method_name]
           out == call_endpoint(endpoint_method.body, obj.attrs, value)
       IN  /\ instances' = [instances EXCEPT ![route.captured_instance].attrs = out.self]
           /\ response' = [service |-> s, path |-> path, status |-> out.status,
                           result |-> out.result, detail |-> out.detail]
    /\ issued' = [issued EXCEPT ![s] = IF path = "/increment" THEN @ + value ELSE @]
    /\ UNCHANGED <<regVars, validated, inflight, fileVars, services, bound>>

\* server.py:84  the route registered with fastapi_app.post(path): the server
\* accepts request r, a POST of {"value": value} to `path` of service s, and
\* schedules the handler coroutine on its event loop
receive(r, s, path, value) ==
    /\ inflight[r].state = "none"
    /\ r > 1 => inflight[r - 1].state # "none"
    /\ s \in 1..Len(services)
    /\ services[s].state = "ready"
    /\ \E i \in 1..Len(services[s].routes) : services[s].routes[i].path = path
    /\ path = "/increment" => issued[s] + value <= MaxCount
    /\ inflight' = [inflight EXCEPT ![r] = [state |-> "received", service |-> s,
                                            path |-> path, value |-> value, self |-> <<>>]]
    /\ issued' = [issued EXCEPT ![s] = IF path = "/increment" THEN @ + value ELSE @]
    /\ UNCHANGED <<regVars, validated, fileVars, instances, services, bound, response>>

\* handlers that run on threads of their own: a body starts whenever its
\* request has been received
handler_call_threaded(r) ==
    /\ inflight[r].state = "received"
    /\ inflight' = [inflight EXCEPT
                       ![r].state = "running",
                       ![r].self = instances[services[inflight[r].service].instance].attrs]
    /\ UNCHANGED <<regVars, validated, fileVars, instances, services, bound, response, issued>>

\* server.py:71-75  `async def handler` is entered for request r and calls
\* endpoint_method(input_data): the body reads the attributes of the app object.
\* The handler is a coroutine that calls the method without awaiting, so the
\* event loop of the service runs the call to its return before it enters the
\* handler of another request.
handler_call(r) ==
    /\ inflight[r].state = "received"
    /\ \A q \in Requests :
          inflight[q].service = inflight[r].service => inflight[q].state # "running"
    /\ inflight' = [inflight EXCEPT
                       ![r].state = "running",
                       ![r].self = instances[services[inflight[r].service].instance].attrs]
    /\ UNCHANGED <<regVars, validated, fileVars, instances, services, bound, response, issued>>

\* server.py:75-80  the method body of request r stores the attributes it
\* assigns and returns (or raises), and the handler answers
handler_return(r) ==
    /\ inflight[r].state = "running"
    /\ LET s == inflight[r].service
           route == RouteFor(services[s], inflight[r].path)
           obj == instances[route.captured_instance]
           endpoint_method == classes[obj.cls].methods[route.captured_method_name]
           out == call_endpoint(endpoint_method.body, inflight[r].self, inflight[r].value)
           assigned == {a \in DOMAIN out.self :
                           a \notin DOMAIN inflight[r].self \/ out.self[a] # inflight[r].self[a]}
       IN  /\ instances' = [instances EXCEPT ![route.captured_instance].attrs =
                               [a \in DOMAIN obj.attrs \cup assigned |->
                                   IF a \in assigned THEN out.self[a] ELSE obj.attrs[a]]]
           /\ response' = [service |-> s, path |-> inflight[r].path, status |-> out.status,
                           result |-> out.result, detail |-> out.detail]
    /\ inflight' = [inflight EXCEPT ![r].state = "done"]
    /\ UNCHANGED <<regVars, validated, fileVars, services, bound, issued>>

-----------------------------------------------------------------------------
(* jlserve/requirements.py, jlserve/cli_utils.py, jlserve/cli.py *)

NoExtract == [exc |-> "none", value |-> PyNone]
NoLoad == [exc |-> "none", cls |-> None, exit_code |-> 0, error |-> NoResult]
NoRun == [command |-> "", steps |-> <<>>, exit_code |-> 0, output |-> "", uv_calls |-> 0]

\* The syntax tree that ast.parse builds, as far as the extractor and the
\* execution of the module look at it.

\* expressions
Constant(value) == [node |-> "Constant", value |-> value, elts |-> <<>>, id |-> ""]
List(elts) == [node |-> "List", value |-> PyNone, elts |-> elts, id |-> ""]
Name(id) == [node |-> "Name", value |-> PyNone, elts |-> <<>>, id |-> id, attr |-> ""]
Attribute(id, attr) == [node |-> "Attribute", value |-> PyNone, elts |-> <<>>, id |-> id, attr |-> attr]
keyword(arg, value) == [arg |-> arg, value |-> value]
Call(func, args, keywords) == [node |-> "Call", func |-> func, args |-> args, keywords |-> keywords]

\* statements; `called` says that a call of the function follows its definition
ClassDef(name, decorator_list, body) ==
    [kind |-> "ClassDef", name |-> name, decorator_list |-> decorator_list, body |-> body,
     called |-> FALSE, path |-> None, params |-> <<>>, hints |-> <<>>, impl |-> ""]
FunctionDef(name, body, called) ==
    [kind |-> "FunctionDef", name |-> name, decorator_list |-> <<>>, body |-> body,
     called |-> called, path |-> None, params |-> <<>>, hints |-> <<>>, impl |-> ""]
\* `import module` of a module that is not installed
Import(module) ==
    [kind |-> "Import", name |-> module, decorator_list |-> <<>>, body |-> <<>>,
     called |-> FALSE, path |-> None, params |-> <<>>, hints |-> <<>>, impl |-> ""]
\* a method of a class body; tagged is TRUE under @jlserve.endpoint(path)
MethodDef(name, tagged, path, params, hints, impl) ==
    [kind |-> "FunctionDef", name |-> name,
     decorator_list |-> IF tagged THEN <<Call(Attribute("jlserve", "endpoint"), <<>>, <<>>)>>
                        ELSE <<>>,
     body |-> <<>>, called |-> FALSE, path |-> path, params |-> params, hints |-> hints,
     impl |-> impl]

\* ast.iter_child_nodes(node), restricted to the statements: the other children
\* (names, arguments, decorator expressions) hold no class definition
iter_child_nodes(node) == node.body

\* a walk that descends into each node before it moves to the next one
RECURSIVE walk_depth_first(_)
walk_depth_first(todo) ==
    IF todo = <<>> THEN <<>>
    ELSE <<Head(todo)>> \o walk_depth_first(iter_child_nodes(Head(todo)) \o Tail(todo))
\* requirements.py:29  ast.walk(tree): a queue that starts with the tree; each
\* node taken from the left has its children appended on the right
RECURSIVE walk(_)
walk(todo) ==
    IF todo = <<>> THEN <<>>
    ELSE <<Head(todo)>> \o walk(Tail(todo) \o iter_child_nodes(Head(todo)))

\* requirements.py:37-70  _is_jlserve_app_decorator(decorator)
is_jlserve_app_decorator(dec) ==
    IF dec.node \notin {"Call", "Attribute", "Name"} THEN FALSE
    ELSE LET func == IF dec.node = "Call" THEN dec.func ELSE dec
         IN  \/ func.node = "Attribute" /\ func.attr = "app"
             \/ func.node = "Name" /\ func.id = "app"

\* a loop that overwrites the list instead of appending to it
string_constants_last_only(elts) ==
    LET kept == SelectSeq(elts, LAMBDA elt : elt.node = "Constant" /\ elt.value.t = "str")
    IN  IF kept = <<>> THEN <<>> ELSE <<kept[Len(kept)].value>>
\* requirements.py:90-96  the elements that are string constants, in order
string_constants(elts) ==
    LET kept == SelectSeq(elts, LAMBDA elt : elt.node = "Constant" /\ elt.value.t = "str")
    IN  [i \in 1..Len(kept) |-> kept[i].value]

\* an extractor that keeps every constant of the list, string or not
extract_requirements_arg_all_constants(dec) ==
    IF dec.node # "Call" THEN PyList(<<>>)
    ELSE LET found == SelectSeq(dec.keywords,
                          LAMBDA k : k.arg = "requirements" /\ k.value.node = "List")
         IN  IF found = <<>> THEN PyList(<<>>)
             ELSE LET kept == SelectSeq(found[1].value.elts,
                                        LAMBDA elt : elt.node = "Constant")
                  IN  PyList([i \in 1..Len(kept) |-> kept[i].value])

\* requirements.py:73-98  _extract_requirements_arg(decorator): the first keyword
\* named requirements whose value is a list display decides
extract_requirements_arg(dec) ==
    IF dec.node # "Call" THEN PyList(<<>>)
    ELSE LET found == SelectSeq(dec.keywords,
                          LAMBDA k : k.arg = "requirements" /\ k.value.node = "List")
         IN  IF found = <<>> THEN PyList(<<>>)
             ELSE PyList(string_constants(found[1].value.elts))

FileNotFoundError == [exc |-> "FileNotFoundError", value |-> PyNone]
SyntaxError == [exc |-> "SyntaxError", value |-> PyNone]
Extracted(value) == [exc |-> "ok", value |-> value]

\* requirements.py:29-33  the decorators reached by the loops, in the order reached
decorators_in_walk_order(nodes) ==
    LET RECURSIVE collect(_)
        collect(i) ==
            IF i > Len(nodes) THEN <<>>
            ELSE (IF nodes[i].kind = "ClassDef"
                  THEN SelectSeq(nodes[i].decorator_list, is_jlserve_app_decorator)
                  ELSE <<>>) \o collect(i + 1)
    IN  collect(1)

\* an extractor that answers a file it cannot read or parse with the empty list
extract_requirements_from_file_recovering(f) ==
    IF ~f.exists \/ ~f.syntax_ok THEN Extracted(PyList(<<>>))
    ELSE LET matches == decorators_in_walk_order(Tail(walk(
                            <<[kind |-> "Module", body |-> f.body]>>)))
         IN  IF matches = <<>> THEN Extracted(PyList(<<>>))
             ELSE Extracted(extract_requirements_arg(matches[1]))
\* requirements.py:12-34  extract_requirements_from_file(file_path)
extract_requirements_from_file(f) ==
    IF ~f.exists THEN FileNotFoundError
    ELSE IF ~f.syntax_ok THEN SyntaxError
    ELSE LET matches == decorators_in_walk_order(Tail(walk(
                            <<[kind |-> "Module", body |-> f.body]>>)))
         IN  IF matches = <<>> THEN Extracted(PyList(<<>>))
             ELSE Extracted(extract_requirements_arg(matches[1]))

\* The execution of the module by spec.loader.exec_module(module).

\* the value of a constant or of a name; the names the file binds before its
\* first class are REQS = ["t"] and PKG = "n"
eval_atom(e) ==
    CASE e.node = "Constant" -> e.value
      [] e.node = "Name" /\ e.id = "REQS" -> PyList(<<PyStr(<<"t">>)>>)
      [] e.node = "Name" /\ e.id = "PKG" -> PyStr(<<"n">>)
      [] OTHER -> PyNone

eval_expr(e) ==
    CASE e.node = "List" -> PyList([i \in 1..Len(e.elts) |-> eval_atom(e.elts[i])])
      [] OTHER -> eval_atom(e)

\* the file holds `import jlserve`, `from jlserve import app` and
\* `from jlserve import app as japp`; every other callee is foreign code that
\* returns the class as it is
is_app_of_jlserve(func) ==
    \/ func.node = "Attribute" /\ func.id = "jlserve" /\ func.attr = "app"
    \/ func.node = "Name" /\ func.id \in {"app", "japp"}

\* decorator.py:12  the value bound to a parameter of app(name, requirements)
bound_argument(call, position, arg) ==
    IF Len(call.args) >= position THEN eval_expr(call.args[position])
    ELSE LET given == SelectSeq(call.keywords, LAMBDA k : k.arg = arg)
         IN  IF given = <<>> THEN PyNone ELSE eval_expr(given[1].value)

\* the text of a str
RECURSIVE Text(_)
Text(chars) == IF chars = <<>> THEN "" ELSE Head(chars) \o Text(Tail(chars))

ImportError(module) ==
    [exc |-> "ImportError", cls |-> "", existing |-> "", attempted |-> "", index |-> -1,
     typename |-> module]
OSError(kind) ==
    [exc |-> kind, cls |-> "", existing |-> "", attempted |-> "", index |-> -1, typename |-> ""]

\* the class object with the methods of its body
class_object(stmt) ==
    LET defs == {i \in 1..Len(stmt.body) : stmt.body[i].kind = "FunctionDef"}
        at(n) == stmt.body[CHOOSE i \in defs : stmt.body[i].name = n /\
                               \A j \in defs : stmt.body[j].name = n => j <= i]
    IN  NewClass(stmt.name,
            [n \in {stmt.body[i].name : i \in defs} |->
                IF at(n).decorator_list # <<>>
                THEN endpoint(at(n).path, n, at(n).params, at(n).hints, at(n).impl)
                ELSE plain_method(n, at(n).params, at(n).hints, at(n).impl)])

\* decorator.py:34-64  one decorator of a class statement applied to the class
apply_decorator(st, dec, name) ==
    IF dec.node = "Call" /\ is_app_of_jlserve(dec.func)
    THEN LET requirements == bound_argument(dec, 2, "requirements")
             name_arg == bound_argument(dec, 1, "name")
             outcome == IF AlreadyRegistered(st.registered_app)
                        THEN MultipleAppsError(st.classes[st.registered_app].name, name)
                        ELSE ValidateRequirements(requirements)
         IN  IF outcome = Ok
             THEN [st EXCEPT !.registered_app = name,
                             !.classes[name] =
                                 Marked(@, IF name_arg.t = "str" THEN Text(name_arg.s) ELSE None,
                                        requirements)]
             ELSE [st EXCEPT !.exc = outcome]
    ELSE st

\* decorators are applied from the one nearest to the class upwards
RECURSIVE apply_decorators(_, _, _, _)
apply_decorators(st, decorator_list, i, name) ==
    IF i < 1 \/ st.exc # NoResult THEN st
    ELSE apply_decorators(apply_decorator(st, decorator_list[i], name), decorator_list,
                          i - 1, name)

\* the statements of a body run in order until one raises: an import of a
\* missing module raises, a function body runs when the function is called, a
\* class statement runs its body, creates the class and applies its decorators
RECURSIVE exec(_, _)
exec(stmts, st) ==
    IF stmts = <<>> \/ st.exc # NoResult THEN st
    ELSE LET stmt == Head(stmts)
             inner == exec(stmt.body, st)
             defined == [n \in DOMAIN inner.classes \cup {stmt.name} |->
                            IF n = stmt.name THEN class_object(stmt) ELSE inner.classes[n]]
         IN  exec(Tail(stmts),
                  CASE stmt.kind = "Import" -> [st EXCEPT !.exc = ImportError(stmt.name)]
                    [] stmt.kind = "FunctionDef" -> IF stmt.called THEN inner ELSE st
                    [] stmt.kind = "ClassDef" ->
                          IF inner.exc # NoResult THEN inner
                          ELSE apply_decorators([inner EXCEPT !.classes = defined],
                                                stmt.decorator_list,
                                                Len(stmt.decorator_list), stmt.name))

\* a loader that leaves the registry, and the class it holds, as they are
loader_registry_kept ==
    [registered_app |-> registered_app, classes |-> classes, exc |-> NoResult]
\* cli_utils.py:116-128  what the module is executed on: _reset_registry() has
\* emptied the registry, and user_module is a new module with no class in it
loader_registry ==
    [registered_app |-> None, classes |-> <<>>, exc |-> NoResult]

\* cli_utils.py:132  spec.loader.exec_module(module), after the reset
exec_module(f) ==
    LET st == loader_registry
    IN  IF ~f.exists THEN [st EXCEPT !.exc = OSError("FileNotFoundError")]
        ELSE IF ~f.syntax_ok THEN [st EXCEPT !.exc = OSError("SyntaxError")]
        ELSE exec(f.body, st)

\* cli_utils.py:135  "MultipleAppsError" in type(e).__name__ or "multiple" in str(e).lower()
\* (the text of "No module named 'multiplexer'" holds "multiple")
looks_like_multiple_apps(e) ==
    \/ e.exc = "MultipleAppsError"
    \/ e.exc = "ImportError" /\ e.typename \in {"multiplexer"}

Exit(code, message) == [exc |-> "typer.Exit", cls |-> None, exit_code |-> code, error |-> message]

\* cli_utils.py:101-150  load_app_class(file): the registry and the classes it
\* leaves, and what it returns or raises
load_app_class(f) ==
    IF f.suffix # ".py"
    THEN [registered_app |-> None, classes |-> <<>>,
          outcome |-> Exit(1, OSError("Could not load file"))]
    ELSE LET st == exec_module(f)
         IN  [registered_app |-> st.registered_app,
              classes |-> st.classes,
              outcome |->
                  IF st.exc # NoResult
                  THEN IF looks_like_multiple_apps(st.exc) THEN Exit(1, st.exc)
                       ELSE [exc |-> st.exc.exc, cls |-> None, exit_code |-> 0, error |-> st.exc]
                  ELSE IF st.registered_app = None THEN Exit(1, OSError("No app found"))
                  ELSE [exc |-> "ok", cls |-> st.registered_app, exit_code |-> 0,
                        error |-> NoResult]]

\* an extraction that imports the file and reads the list off the registered class
ExtractRequirementsByImport ==
    LET st == exec_module(file)
    IN  /\ registered_app' = st.registered_app
        /\ classes' = st.classes
        /\ extracted' =
              IF st.exc # NoResult THEN [exc |-> st.exc.exc, value |-> PyNone]
              ELSE IF st.registered_app = None THEN Extracted(PyList(<<>>))
              ELSE Extracted(st.classes[st.registered_app].jlserve_requirements)
        /\ UNCHANGED <<closure, pc, result, validated, serveVars, file, loaded, env, cli>>
\* a call extract_requirements_from_file(str(file))
ExtractRequirements ==
    /\ extracted' = extract_requirements_from_file(file)
    /\ UNCHANGED <<regVars, validated, serveVars, file, loaded, env, cli>>

\* a call load_app_class(file)
LoadAppClass ==
    LET load == load_app_class(file)
    IN  /\ registered_app' = load.registered_app
        /\ classes' = load.classes
        /\ loaded' = load.outcome
        /\ UNCHANGED <<closure, pc, result, validated, serveVars, file, extracted, env, cli>>

\* The commands of jlserve/cli.py.  A command runs its steps in order and stops
\* at the first that fails; typer turns typer.Exit(1), and any exception that
\* leaves the command, into exit code 1.

\* cli_utils.py:30-45  validate_python_file(file): the error it prints, "" for none
validate_python_file(f) ==
    IF ~f.exists THEN "File not found"
    ELSE IF f.suffix # ".py" THEN "File must be a Python file"
    ELSE ""

\* an install step that carries on when `uv pip install` fails
install_requirements_unchecked(f, e) ==
    LET requirements == extract_requirements_from_file(f)
    IN  IF requirements.exc = "SyntaxError"
        THEN [error |-> "Invalid Python syntax", uv_calls |-> 0]
        ELSE IF requirements.exc # "ok"
        THEN [error |-> "Failed to extract requirements", uv_calls |-> 0]
        ELSE [error |-> "", uv_calls |-> IF Truthy(requirements.value) THEN 1 ELSE 0]
\* cli_utils.py:48-98  install_requirements(file, cache_dir): the error it
\* prints, and the number of times it runs `uv pip install`
install_requirements(f, e) ==
    LET requirements == extract_requirements_from_file(f)
    IN  IF requirements.exc = "SyntaxError"
        THEN [error |-> "Invalid Python syntax", uv_calls |-> 0]
        ELSE IF requirements.exc # "ok"
        THEN [error |-> "Failed to extract requirements", uv_calls |-> 0]
        ELSE IF ~Truthy(requirements.value) THEN [error |-> "", uv_calls |-> 0]
        ELSE [error |-> CASE e.uv = "fails" -> "Failed to install requirements"
                          [] e.uv = "missing" -> "'uv' command not found"
                          [] OTHER -> "",
              uv_calls |-> 1]

\* server.py:27-50  what create_app(app_cls) builds for a class, given the number
\* of app objects that exist
bind(cls, c, n) ==
    LET endpoint_methods == get_endpoint_methods(cls)
        outcome == validate_app(cls)
    IN  [outcome |-> outcome,
         instance |-> Construct(cls),
         service |-> [cls |-> c,
                      title |-> cls.jlserve_app_name,
                      instance |-> n + 1,
                      routes |-> IF outcome # Valid THEN <<>>
                                 ELSE [i \in 1..Len(endpoint_methods) |->
                                         register_endpoint_route(endpoint_methods[i], n + 1)],
                      state |-> "created",
                      error |-> NoError]]

Stopped(steps, n, output) == [steps |-> SubSeq(steps, 1, n), exit_code |-> 1, output |-> output]
Completed(steps) == [steps |-> steps, exit_code |-> 0, output |-> ""]

DevSteps ==
    <<"validate_python_file", "get_jlserve_cache_dir", "marker_file.exists",
      "install_requirements", "load_app_class", "get_endpoint_methods", "create_app",
      "uvicorn.run">>

\* a dev command that does not look for the build marker
dev_without_marker_check(f, e) ==
    LET file_error == validate_python_file(f)
        install_error == install_requirements(f, e).error
        load == load_app_class(f)
        outcome == validate_app(load.classes[load.registered_app])
    IN  IF file_error # "" THEN Stopped(DevSteps, 1, file_error)
        ELSE IF ~e.cache_dir THEN Stopped(DevSteps, 2, "JLSERVE_CACHE_DIR must be set")
        ELSE IF install_error # "" THEN Stopped(DevSteps, 4, install_error)
        ELSE IF load.outcome.exc # "ok" THEN Stopped(DevSteps, 5, load.outcome.error.exc)
        ELSE IF get_endpoint_methods(load.classes[load.registered_app]) = <<>>
        THEN Stopped(DevSteps, 6, "has no endpoints")
        ELSE IF outcome # Valid THEN Stopped(DevSteps, 7, outcome.cause)
        ELSE Completed(DevSteps)
\* cli.py:28-97  dev(file, port): the steps it reaches, its exit code and output
dev(f, e) ==
    LET file_error == validate_python_file(f)
        install_error == install_requirements(f, e).error
        load == load_app_class(f)
        outcome == validate_app(load.classes[load.registered_app])
    IN  IF file_error # "" THEN Stopped(DevSteps, 1, file_error)
        ELSE IF ~e.cache_dir THEN Stopped(DevSteps, 2, "JLSERVE_CACHE_DIR must be set")
        ELSE IF ~e.marker THEN Stopped(DevSteps, 3, "Build marker not found")
        ELSE IF install_error # "" THEN Stopped(DevSteps, 4, install_error)
        ELSE IF load.outcome.exc # "ok" THEN Stopped(DevSteps, 5, load.outcome.error.exc)
        ELSE IF get_endpoint_methods(load.classes[load.registered_app]) = <<>>
        THEN Stopped(DevSteps, 6, "has no endpoints")
        ELSE IF outcome # Valid THEN Stopped(DevSteps, 7, outcome.cause)
        ELSE Completed(DevSteps)

BuildSteps ==
    <<"validate_python_file", "get_jlserve_cache_dir", "install_requirements",
      "load_app_class", "validate_app", "app_cls", "download_weights", "marker_file.touch">>

\* cli.py:143  app_instance.download_weights() on a new object of the class
call_download_weights(cls) ==
    LET self == Construct(cls).attrs
    IN  IF "download_weights" \notin DOMAIN cls.methods
        THEN Raised("object has no attribute 'download_weights'", self)
        ELSE IF cls.methods["download_weights"].body = "not a method"
        THEN Raised("object is not callable", self)
        ELSE IF Len(cls.methods["download_weights"].params) # 1
        THEN Raised("missing required positional argument", self)
        ELSE RunBody(cls.methods["download_weights"].body, self, 0)

\* a build command that writes the marker whatever download_weights() did
build_ignoring_download_failure(f, e) ==
    LET file_error == validate_python_file(f)
        install_error == install_requirements(f, e).error
        load == load_app_class(f)
        outcome == validate_app(load.classes[load.registered_app])
    IN  IF file_error # "" THEN Stopped(BuildSteps, 1, file_error)
        ELSE IF ~e.cache_dir THEN Stopped(BuildSteps, 2, "JLSERVE_CACHE_DIR must be set")
        ELSE IF install_error # "" THEN Stopped(BuildSteps, 3, install_error)
        ELSE IF load.outcome.exc # "ok" THEN Stopped(BuildSteps, 4, load.outcome.error.exc)
        ELSE IF outcome # Valid
        THEN Stopped(BuildSteps, 5, "App validation failed: " \o outcome.cause)
        ELSE Completed(BuildSteps)
\* cli.py:100-151  build(file): the steps it reaches, its exit code and output
build(f, e) ==
    LET file_error == validate_python_file(f)
        install_error == install_requirements(f, e).error
        load == load_app_class(f)
        outcome == validate_app(load.classes[load.registered_app])
        downloaded == call_download_weights(load.classes[load.registered_app])
    IN  IF file_error # "" THEN Stopped(BuildSteps, 1, file_error)
        ELSE IF ~e.cache_dir THEN Stopped(BuildSteps, 2, "JLSERVE_CACHE_DIR must be set")
        ELSE IF install_error # "" THEN Stopped(BuildSteps, 3, install_error)
        ELSE IF load.outcome.exc # "ok" THEN Stopped(BuildSteps, 4, load.outcome.error.exc)
        ELSE IF outcome # Valid
        THEN Stopped(BuildSteps, 5, "App validation failed: " \o outcome.cause)
        ELSE IF downloaded.raised
        THEN Stopped(BuildSteps, 7, "download_weights() failed: " \o downloaded.message)
        ELSE Completed(BuildSteps)

\* what the steps of a command leave behind: the number of `uv pip install`
\* runs; the extraction and the load it made; the registry and the classes of
\* the loaded module
CommandEffects(ran, command, extract_step, load_step) ==
    LET load == load_app_class(file)
    IN  /\ cli' = [command |-> command, steps |-> ran.steps, exit_code |-> ran.exit_code,
                   output |-> ran.output,
                   uv_calls |-> IF Len(ran.steps) >= extract_step
                                THEN install_requirements(file, env).uv_calls ELSE 0]
        /\ extracted' = IF Len(ran.steps) >= extract_step
                        THEN extract_requirements_from_file(file) ELSE extracted
        /\ IF Len(ran.steps) >= load_step
           THEN /\ registered_app' = load.registered_app
                /\ classes' = load.classes
                /\ loaded' = load.outcome
           ELSE UNCHANGED <<registered_app, classes, loaded>>

\* a run of `jlserve dev <file>`; the application it hands to uvicorn.run is
\* the service that create_app returned
Dev ==
    /\ Len(services) < MaxServices
    /\ CommandEffects(dev(file, env), "dev", 4, 5)
    /\ IF Len(cli'.steps) >= 7
       THEN LET c == registered_app'
                made == bind(classes'[c], c, Len(instances))
            IN  /\ bound' = [cls |-> c, outcome |-> made.outcome,
                             service |-> IF made.outcome = Valid THEN Len(services) + 1 ELSE 0]
                /\ IF made.outcome = Valid
                   THEN /\ instances' = Append(instances, made.instance)
                        /\ services' = Append(services, made.service)
                        /\ issued' = Append(issued, 0)
                   ELSE UNCHANGED <<instances, services, issued>>
       ELSE UNCHANGED <<instances, services, issued, bound>>
    /\ UNCHANGED <<closure, pc, result, validated, inflight, response, file, env>>

\* a run of `jlserve build <file>`
Build ==
    /\ Len(instances) < MaxServices
    /\ CommandEffects(build(file, env), "build", 3, 4)
    /\ validated' = IF Len(cli'.steps) >= 5
                    THEN [cls |-> registered_app',
                          outcome |-> validate_app(classes'[registered_app'])]
                    ELSE validated
    /\ instances' = IF Len(cli'.steps) >= 6
                    THEN Append(instances,
                                [Construct(classes'[registered_app']) EXCEPT
                                    !.attrs =
                                        call_download_weights(classes'[registered_app']).self])
                    ELSE instances
    /\ env' = [env EXCEPT !.marker = @ \/ Len(cli'.steps) = 8]
    /\ UNCHANGED <<closure, pc, result, services, bound, response, issued, inflight, file>>

-----
(* Generated classes *)

\* method signatures and annotations of the generated classes
Absent == "absent"

Hints(input_type, return_type) ==
    [k \in (IF input_type = Absent THEN {} ELSE {"input"})
           \cup (IF return_type = Absent THEN {} ELSE {"return"}) |->
        IF k = "input" THEN input_type ELSE return_type]

GenNames == {<<"m1", "m2", "m3">>[i] : i \in 1..MaxMethods}

PathArgs == {None, "/same", "/m1"}

\* what the class body may hold under one name: nothing, a plain method, or an
\* endpoint with any path argument, with or without an input parameter, with
\* any annotations
MethodShapes ==
    {[kind |-> "none", path |-> None, params |-> <<>>, hints |-> <<>>]}
    \cup {[kind |-> "plain", path |-> None, params |-> <<"self">>, hints |-> <<>>]}
    \cup {[kind |-> "endpoint", path |-> p, params |-> <<"self">>, hints |-> Hints(Absent, r)] :
            p \in PathArgs, r \in {Absent, "Output", "dict"}}
    \cup {[kind |-> "endpoint", path |-> p, params |-> <<"self", "input">>,
           hints |-> Hints(i, r)] :
            p \in PathArgs, i \in {Absent, "Input", "str"}, r \in {Absent, "Output", "dict"}}

MethodOfShape(name, shape) ==
    IF shape.kind = "plain"
    THEN plain_method(name, shape.params, shape.hints, "pass")
    ELSE endpoint(shape.path, name, shape.params, shape.hints, "pass")

GenClass(name, shapes, decorated) ==
    LET body == NewClass(name,
                    [n \in {m \in GenNames : shapes[m].kind # "none"} |->
                        MethodOfShape(n, shapes[n])])
    IN  IF decorated THEN Marked(body, None, PyNone) ELSE body

-----------------------------------------------------------------------------
(* Specifications *)

Idle == [at |-> "idle", cls |-> None]

\* nothing bound yet
InitServe ==
    /\ instances = <<>>
    /\ services = <<>>
    /\ bound = [cls |-> None, outcome |-> Valid, service |-> 0]
    /\ response = [service |-> 0, path |-> "", status |-> 0, result |-> 0, detail |-> ""]
    /\ issued = <<>>
    /\ inflight = [r \in Requests |-> NoRequest]

\* no file read and no command run yet
InitFile ==
    /\ file = [exists |-> FALSE, suffix |-> "", syntax_ok |-> FALSE, body |-> <<>>]
    /\ extracted = NoExtract
    /\ loaded = NoLoad
    /\ env = [cache_dir |-> FALSE, marker |-> FALSE, uv |-> "ok"]
    /\ cli = NoRun

InitRegistry ==
    /\ registered_app = None
    /\ classes = [c \in ClassNames |-> NewClass(c, <<>>)]
    /\ pc = [t \in Threads |-> Idle]
    /\ result = [t \in Threads |-> NoResult]
    /\ validated = NoValidation
    /\ InitServe
    /\ InitFile

\* the registry under one thread: decoration and reset in any order
Init ==
    /\ InitRegistry
    /\ closure = [t \in Threads |-> NoClosure]

Next ==
    \/ \E n \in NameArgs, r \in ReqArgsSmall : app(MainThread, n, r)
    \/ \E c \in ClassNames : decorator(MainThread, c)
    \/ reset_registry(MainThread)

Spec == Init /\ [][Next]_vars

\* one decoration with any name and any requirements argument
InitReq ==
    /\ InitRegistry
    /\ \E n \in NameArgs, r \in ReqArgs :
          closure = [t \in Threads |->
                       IF t = MainThread
                       THEN Pending(n, r)
                       ELSE NoClosure]

NextReq == \E c \in ClassNames : decorator(MainThread, c)

SpecReq == InitReq /\ [][NextReq]_vars

\* two threads, each decorating one class, with no reset
NextConc ==
    \E t \in Threads :
        \/ \E n \in NameArgs, r \in ReqArgsSmall : closure[t].state = "none" /\ app(t, n, r)
        \/ \E c \in ClassNames : DecoratorEnter(t, c)
        \/ DecoratorValidate(t)
        \/ DecoratorAssign(t)

SpecConc == Init /\ [][NextConc]_vars

\* validate_app on a class with any body, decorated or not
InitVal ==
    /\ \E shapes \in [GenNames -> MethodShapes], decorated \in BOOLEAN :
          /\ classes = [c \in ClassNames |->
                          IF c = "FirstApp"
                          THEN GenClass(c, shapes, decorated)
                          ELSE NewClass(c, <<>>)]
          /\ registered_app = IF decorated THEN "FirstApp" ELSE None
    /\ closure = [t \in Threads |-> NoClosure]
    /\ pc = [t \in Threads |-> Idle]
    /\ result = [t \in Threads |-> NoResult]
    /\ validated = NoValidation
    /\ InitServe
    /\ InitFile

NextVal == \E c \in ClassNames : ValidateApp(c)

SpecVal == InitVal /\ [][NextVal]_vars

\* the classes of jarvis/server_test.py after the module body has run
IO == Hints("Input", "Output")

ServedClasses ==
    LET Methods(ms) == [n \in {m.name : m \in ms} |-> CHOOSE m \in ms : m.name = n]
    IN  [Counter |->
            Marked(NewClass("Counter", Methods({
                plain_method("__init__", <<"self">>, <<>>, "init_count"),
                endpoint(None, "increment", <<"self", "input">>, IO, "increment"),
                endpoint(None, "get_count", <<"self", "input">>, IO, "get_count"),
                endpoint(None, "failing", <<"self", "input">>, IO, "failing")})),
                None, PyNone),
         Calculator |->
            Marked(NewClass("Calculator", Methods({
                plain_method("setup", <<"self">>, <<>>, "setup_multiplier"),
                endpoint("/scale", "multiply", <<"self", "input">>, IO, "scale"),
                endpoint(None, "failing", <<"self", "input">>, IO, "failing")})),
                "Calculator", PyNone),
         MyApp |->
            Marked(NewClass("MyApp", Methods({
                plain_method("setup", <<"self">>, <<>>, "setup_raises"),
                endpoint(None, "process", <<"self", "input">>, IO, "process")})),
                None, PyNone),
         NotAnApp |->
            NewClass("NotAnApp", Methods({
                endpoint(None, "process", <<"self", "input">>, IO, "process")})),
         EmptyApp |->
            Marked(NewClass("EmptyApp", Methods({
                plain_method("helper", <<"self">>, <<>>, "pass")})),
                None, PyNone),
         InvalidApp |->
            Marked(NewClass("InvalidApp", Methods({
                endpoint(None, "process", <<"self", "input">>, Hints("str", "str"), "process")})),
                None, PyNone),
         SamePath |->
            Marked(NewClass("SamePath", Methods({
                endpoint("/same", "add", <<"self", "input">>, IO, "process"),
                endpoint("/same", "process", <<"self", "input">>, IO, "process")})),
                None, PyNone)]

Values == {2, 3, 5}

Paths == {"/increment", "/get_count", "/failing", "/scale", "/process", "/same"}

InitBind ==
    /\ registered_app = None
    /\ classes = ServedClasses
    /\ closure = [t \in Threads |-> NoClosure]
    /\ pc = [t \in Threads |-> Idle]
    /\ result = [t \in Threads |-> NoResult]
    /\ validated = NoValidation
    /\ InitServe
    /\ InitFile

NextBind ==
    \/ \E c \in DOMAIN ServedClasses : create_app(c)
    \/ \E s \in 1..MaxServices : lifespan(s)
    \/ \E s \in 1..MaxServices : lifespan_exit(s)
    \/ \E s \in 1..MaxServices, path \in Paths, value \in Values : handler(s, path, value)

SpecBind == InitBind /\ [][NextBind]_vars

\* The requests of SpecLoop go to the counter service
LoopPaths == {"/increment", "/get_count"}

NextLoop ==
    \/ create_app("Counter")
    \/ \E s \in 1..MaxServices : lifespan(s)
    \/ \E r \in Requests, s \in 1..MaxServices, path \in LoopPaths, value \in Values :
          receive(r, s, path, value)
    \/ \E r \in Requests : handler_call(r)
    \/ \E r \in Requests : handler_return(r)

SpecLoop == InitBind /\ [][NextLoop]_vars

\* Generated files.  The decorator lists a class statement may carry:
Str(chars) == Constant(PyStr(chars))

DecoratorLists ==
    { <<>>,
      \* @jlserve.app()
      <<Call(Attribute("jlserve", "app"), <<>>, <<>>)>>,
      \* @jlserve.app(requirements=["t", " n"])
      <<Call(Attribute("jlserve", "app"), <<>>,
             <<keyword("requirements", List(<<Str(<<"t">>), Str(<<" ", "n">>)>>))>>)>>,
      \* @other_decorator above @app(name="x", requirements=["n"])
      <<Name("other_decorator"),
        Call(Name("app"), <<>>,
             <<keyword("name", Str(<<"x">>)), keyword("requirements", List(<<Str(<<"n">>)>>))>>)>>,
      \* @app(requirements=["t", 123])
      <<Call(Name("app"), <<>>,
             <<keyword("requirements",
                       List(<<Str(<<"t">>), Constant(PyInt(<<"1", "2", "3">>))>>))>>)>>,
      \* @jlserve.app(requirements=REQS)
      <<Call(Attribute("jlserve", "app"), <<>>, <<keyword("requirements", Name("REQS"))>>)>>,
      \* @jlserve.app(requirements=["t", PKG])
      <<Call(Attribute("jlserve", "app"), <<>>,
             <<keyword("requirements", List(<<Str(<<"t">>), Name("PKG")>>))>>)>>,
      \* @jlserve.app("x", ["n"])
      <<Call(Attribute("jlserve", "app"), <<Str(<<"x">>), List(<<Str(<<"n">>)>>)>>, <<>>)>>,
      \* @jlserve.app
      <<Attribute("jlserve", "app")>>,
      \* @other.app(requirements=["n"])
      <<Call(Attribute("other", "app"), <<>>,
             <<keyword("requirements", List(<<Str(<<"n">>)>>))>>)>>,
      \* @japp(requirements=["t"])
      <<Call(Name("japp"), <<>>, <<keyword("requirements", List(<<Str(<<"t">>)>>))>>)>> }

\* the statements that may stand at place i of the file: a failing import (of
\* torch, or of multiplexer, whose error text holds the word "multiple"), a
\* class, a function that holds a class and is called or not, a class that
\* holds a class; after the first two places, a failing import or a class
\* that is an app or is not
StatementsAt(i) ==
    LET \* the decorator lists of a class that holds another class
        OuterDecoratorLists ==
            { <<>>,
              <<Call(Attribute("jlserve", "app"), <<>>,
                     <<keyword("requirements", List(<<Str(<<"t">>)>>))>>)>> }
        \* the decorator lists of a class inside a class
        InnerDecoratorLists ==
            { <<>>,
              <<Call(Attribute("jlserve", "app"), <<>>,
                     <<keyword("requirements", List(<<Str(<<"n">>)>>))>>)>> }
        TopNames == <<"C1", "C2", "C3", "C4">>
        NestedNames == <<"N1", "N2", "N3", "N4">>
        FunctionNames == <<"f1", "f2", "f3", "f4">>
    IN  IF i <= 2
        THEN {Import("torch"), Import("multiplexer")}
             \cup {ClassDef(TopNames[i], d, <<>>) : d \in DecoratorLists}
             \cup {FunctionDef(FunctionNames[i], <<ClassDef(NestedNames[i], d, <<>>)>>,
                               called) :
                     d \in DecoratorLists, called \in BOOLEAN}
             \cup {ClassDef(TopNames[i], o, <<ClassDef(NestedNames[i], d, <<>>)>>) :
                     o \in OuterDecoratorLists, d \in InnerDecoratorLists}
        ELSE {Import("torch")}
             \cup {ClassDef(TopNames[i], d, <<>>) : d \in OuterDecoratorLists}

RECURSIVE Bodies(_)
Bodies(n) ==
    IF n = 0 THEN {<<>>}
    ELSE {Append(b, stmt) : b \in Bodies(n - 1), stmt \in StatementsAt(n)}

\* one file, missing, unparsable or with any generated body, read by the
\* extractor and loaded, in any order and any number of times
InitExtract ==
    /\ registered_app = None
    /\ classes = <<>>
    /\ closure = [t \in Threads |-> NoClosure]
    /\ pc = [t \in Threads |-> Idle]
    /\ result = [t \in Threads |-> NoResult]
    /\ validated = NoValidation
    /\ InitServe
    /\ file \in
          {[exists |-> FALSE, suffix |-> ".py", syntax_ok |-> FALSE, body |-> <<>>],
           [exists |-> TRUE, suffix |-> ".py", syntax_ok |-> FALSE, body |-> <<>>]}
          \cup {[exists |-> TRUE, suffix |-> ".py", syntax_ok |-> TRUE, body |-> b] :
                  b \in UNION {Bodies(n) : n \in 0..MaxStmts}}
    /\ extracted = NoExtract
    /\ loaded = NoLoad
    /\ env = [cache_dir |-> FALSE, marker |-> FALSE, uv |-> "ok"]
    /\ cli = NoRun

NextExtract ==
    \/ ExtractRequirements
    \/ LoadAppClass

SpecExtract == InitExtract /\ [][NextExtract]_vars

\* the files of jlserve/cli_test.py
CliFiles ==
    LET Predict == MethodDef("predict", TRUE, None, <<"self", "input">>, IO, "pass")
        Setup == MethodDef("setup", FALSE, None, <<"self">>, Hints(Absent, "None"), "pass")
        DownloadWeights(impl) ==
            MethodDef("download_weights", FALSE, None, <<"self">>, Hints(Absent, "None"), impl)
        PythonFile(body) == [exists |-> TRUE, suffix |-> ".py", syntax_ok |-> TRUE, body |-> body]
        AppCall(requirements) ==
            Call(Attribute("jlserve", "app"), <<>>,
                 IF requirements = <<>> THEN <<>>
                 ELSE <<keyword("requirements", List(requirements))>>)
    IN
    { \* test_build_success, with and without requirements
      PythonFile(<<ClassDef("MyModel", <<AppCall(<<>>)>>,
                            <<Setup, DownloadWeights("pass"), Predict>>)>>),
      PythonFile(<<ClassDef("MyModel", <<AppCall(<<Str(<<"t">>), Str(<<"n">>)>>)>>,
                            <<Setup, DownloadWeights("pass"), Predict>>)>>),
      \* test_build_validates_app_structure: no download_weights
      PythonFile(<<ClassDef("MyModel", <<AppCall(<<>>)>>, <<Setup, Predict>>)>>),
      \* test_build_download_weights_fails
      PythonFile(<<ClassDef("MyModel", <<AppCall(<<>>)>>,
                            <<Setup, DownloadWeights("download_raises"), Predict>>)>>),
      \* test_dev_no_app_found
      PythonFile(<<ClassDef("NotAnApp", <<>>, <<Predict>>)>>),
      \* test_dev_app_with_no_endpoints
      PythonFile(<<ClassDef("EmptyApp", <<AppCall(<<>>)>>,
                            <<Setup, DownloadWeights("pass")>>)>>),
      \* an endpoint without a return type hint
      PythonFile(<<ClassDef("InvalidApp", <<AppCall(<<>>)>>,
                            <<Setup, DownloadWeights("pass"),
                              MethodDef("predict", TRUE, None, <<"self", "input">>,
                                        Hints("Input", Absent), "pass")>>)>>),
      \* two apps in one file
      PythonFile(<<ClassDef("FirstApp", <<AppCall(<<>>)>>, <<Predict>>),
                   ClassDef("SecondApp", <<AppCall(<<>>)>>, <<Predict>>)>>),
      \* test_dev_extracts_requirements_before_import: the import fails
      PythonFile(<<Import("torch"),
                   ClassDef("MyModel", <<AppCall(<<Str(<<"t">>)>>)>>,
                            <<Setup, DownloadWeights("pass"), Predict>>)>>),
      \* test_dev_handles_syntax_error_in_file
      [exists |-> TRUE, suffix |-> ".py", syntax_ok |-> FALSE, body |-> <<>>],
      \* test_dev_file_not_found, test_dev_file_must_be_python
      [exists |-> FALSE, suffix |-> ".py", syntax_ok |-> FALSE, body |-> <<>>],
      [exists |-> TRUE, suffix |-> ".txt", syntax_ok |-> FALSE, body |-> <<>>] }

\* one file and one environment; the commands and the library calls in any order
InitCli ==
    /\ registered_app = None
    /\ classes = <<>>
    /\ closure = [t \in Threads |-> NoClosure]
    /\ pc = [t \in Threads |-> Idle]
    /\ result = [t \in Threads |-> NoResult]
    /\ validated = NoValidation
    /\ InitServe
    /\ file \in CliFiles
    /\ extracted = NoExtract
    /\ loaded = NoLoad
    /\ env \in [cache_dir : BOOLEAN, marker : BOOLEAN, uv : {"ok", "fails", "missing"}]
    /\ cli = NoRun

NextCli ==
    \/ Dev
    \/ Build
    \/ ExtractRequirements

SpecCli == InitCli /\ [][NextCli]_vars

\* load cycles in one process: classes with tagged methods are decorated,
\* validated and dropped from the registry, in any order
CycleClasses ==
    [c \in ClassNames |->
        IF c = "FirstApp"
        THEN NewClass(c, [n \in {"m1", "m2"} |->
                 IF n = "m1"
                 THEN endpoint(None, "m1", <<"self", "input">>, IO, "pass")
                 ELSE endpoint("/same", "m2", <<"self", "input">>, IO, "pass")])
        ELSE NewClass(c, <<>>)]

InitCycle ==
    /\ registered_app = None
    /\ classes = CycleClasses
    /\ closure = [t \in Threads |-> NoClosure]
    /\ pc = [t \in Threads |-> Idle]
    /\ result = [t \in Threads |-> NoResult]
    /\ validated = NoValidation
    /\ InitServe
    /\ InitFile

NextCycle ==
    \/ \E n \in NameArgs, r \in ReqArgsSmall : app(MainThread, n, r)
    \/ \E c \in ClassNames : decorator(MainThread, c)
    \/ reset_registry(MainThread)
    \/ \E c \in ClassNames : ValidateApp(c)

SpecCycle == InitCycle /\ [][NextCycle]_vars

\* strict validation of a class, decorated or not, whose body holds under each
\* lifecycle name nothing, a value that is not callable, or a method with any
\* parameters and any return annotation, and holds one handler or none
InitStrict ==
    /\ LET HookShapes ==
               {[kind |-> "none", params |-> <<>>, hints |-> <<>>],
                [kind |-> "value", params |-> <<>>, hints |-> <<>>]}
               \cup {[kind |-> "method", params |-> ps, hints |-> Hints(Absent, r)] :
                       ps \in {<<"self">>, <<"self", "config">>},
                       r \in {Absent, "None", "str"}}
           HookOfShape(name, shape) ==
               plain_method(name, shape.params, shape.hints,
                            IF shape.kind = "value" THEN "not a method" ELSE "pass")
           HookClass(setup_shape, weights_shape, with_handler, decorated) ==
               LET shapes == [n \in {"setup", "download_weights"} |->
                                 IF n = "setup" THEN setup_shape ELSE weights_shape]
                   body == NewClass("FirstApp",
                               [n \in {m \in DOMAIN shapes : shapes[m].kind # "none"}
                                        \cup (IF with_handler THEN {"m1"} ELSE {}) |->
                                   IF n = "m1"
                                   THEN endpoint(None, n, <<"self", "input">>,
                                                 Hints("Input", "Output"), "pass")
                                   ELSE HookOfShape(n, shapes[n])])
               IN  IF decorated THEN Marked(body, None, PyNone) ELSE body
       IN  \E s \in HookShapes, w \in HookShapes, h \in BOOLEAN, decorated \in BOOLEAN :
              /\ classes = [c \in ClassNames |->
                              IF c = "FirstApp"
                              THEN HookClass(s, w, h, decorated)
                              ELSE NewClass(c, <<>>)]
              /\ registered_app = IF decorated THEN "FirstApp" ELSE None
    /\ closure = [t \in Threads |-> NoClosure]
    /\ pc = [t \in Threads |-> Idle]
    /\ result = [t \in Threads |-> NoResult]
    /\ validated = NoValidation
    /\ InitServe
    /\ InitFile

NextStrict == \E c \in ClassNames : ValidateAppStrict(c)

SpecStrict == InitStrict /\ [][NextStrict]_vars

-----------------------------------------------------------------------------
(* Claims *)

\* the positions of a list whose element is not a string, or is a string that
\* holds nothing but whitespace
Offending(elts) ==
    {k \in 1..Len(elts) :
        \/ elts[k].t # "str"
        \/ \A j \in 1..Len(elts[k].s) : elts[k].s[j] \in Whitespace}

Lowest(S) == CHOOSE k \in S : \A j \in S : k <= j

\* the stages of validation, stated on the class
EndpointsOf(cls) ==
    {cls.methods[n] : n \in {m \in DOMAIN cls.methods : cls.methods[m].jlserve_endpoint}}

IllTyped(m) ==
    \/ Len(m.params) < 2
    \/ m.params[2] \notin DOMAIN m.hints
    \/ "return" \notin DOMAIN m.hints
    \/ m.hints[m.params[2]] \notin PydanticModels
    \/ m.hints["return"] \notin PydanticModels

SharesPath(cls) ==
    \E a, b \in EndpointsOf(cls) : a # b /\ a.jlserve_endpoint_path = b.jlserve_endpoint_path

FirstFailingStage(cls) ==
    IF ~cls.jlserve_app THEN 1
    ELSE IF EndpointsOf(cls) = {} THEN 2
    ELSE IF \E m \in EndpointsOf(cls) : IllTyped(m) THEN 3
    ELSE IF SharesPath(cls) THEN 4
    ELSE 0

StageOfCause(outcome) ==
    CASE outcome.exc = "ok" -> 0
      [] outcome.cause = "must be decorated with @jlserve.app()" -> 1
      [] outcome.cause = "must have at least one method decorated with @jlserve.endpoint()" -> 2
      [] outcome.cause \in {"must accept an input parameter with a type hint",
                            "must have a type hint for input parameter",
                            "must have a return type hint",
                            "input type must be a Pydantic BaseModel subclass",
                            "return type must be a Pydantic BaseModel subclass"} -> 3
      [] outcome.cause = "Duplicate endpoint path" -> 4

\* C1: the registry holds one class or none; a decorator call made while the
\* registry holds a class raises MultipleAppsError naming the registered class
\* and the attempted class, and leaves the registry and the classes as they were.
C1_SingleWriter ==
    /\ [](registered_app \in ClassNames \cup {None})
    /\ [](result[MainThread].exc = "MultipleAppsError" =>
            /\ registered_app # None
            /\ result[MainThread].existing = classes[registered_app].name)
    /\ [][\A c \in ClassNames :
            (registered_app # None /\ decorator(MainThread, c)) =>
                /\ result'[MainThread] =
                       MultipleAppsError(classes[registered_app].name, classes[c].name)
                /\ registered_app' = registered_app
                /\ classes' = classes]_vars

C1_Witness ==
    /\ registered_app = "FirstApp"
    /\ result[MainThread] = MultipleAppsError("FirstApp", "SecondApp")

\* C2: when two threads have each finished one decorator call, for different
\* classes and with acceptable requirements, exactly one call returned and the
\* other raised MultipleAppsError.
AcceptableRequirements(t) ==
    closure[t].requirements.t \in {"NoneType", "list"}
        /\ Offending(closure[t].requirements.elts) = {}

AttemptedClass(t) ==
    IF result[t].exc = "ok" THEN result[t].cls ELSE result[t].attempted

C2_ExactlyOneSucceeds ==
    ( /\ \A t \in Threads : closure[t].state = "applied" /\ AcceptableRequirements(t)
      /\ AttemptedClass("main") # AttemptedClass("other") )
    => \E t \in Threads :
          /\ result[t].exc = "ok"
          /\ \A u \in Threads \ {t} : result[u].exc = "MultipleAppsError"

\* C3: a create_app call on a class that fails validate_app creates no object
\* and no service, registers no route, and raises the validator's error.
C3_ValidateFirst ==
    /\ []((bound.cls # None /\ bound.outcome # Valid) =>
            /\ bound.outcome.exc = "EndpointValidationError"
            /\ bound.service = 0)
    /\ [][\A c \in DOMAIN classes :
            (create_app(c) /\ FirstFailingStage(classes[c]) # 0) =>
                /\ instances' = instances
                /\ services' = services
                /\ bound'.outcome.exc = "EndpointValidationError"
                /\ StageOfCause(bound'.outcome) = FirstFailingStage(classes[c])]_vars

\* a rejected create_app call after one that returned a service
C3_Witness ==
    /\ bound.cls = "InvalidApp"
    /\ bound.outcome.exc = "EndpointValidationError"
    /\ Len(services) = 1
    /\ Len(instances) = 1

SetupRaises(s) ==
    /\ has_setup(classes[services[s].cls])
    /\ RunBody(classes[services[s].cls].methods["setup"].body,
               instances[services[s].instance].attrs, 0).raised

SetupMessage(s) ==
    RunBody(classes[services[s].cls].methods["setup"].body,
            instances[services[s].instance].attrs, 0).message

C6_SharedInstance ==
    /\ Len(instances) = Len(services)
    /\ \A s \in 1..Len(services) :
          /\ services[s].instance = s
          /\ \A i \in 1..Len(services[s].routes) :
                services[s].routes[i].captured_instance = services[s].instance
    /\ (response.status = 200 /\ response.path \in {"/increment", "/get_count"}) =>
          response.result = issued[response.service]

\* values 2, 3 and 5 were posted and the count read back is 10
C6_Witness ==
    /\ response.path = "/get_count"
    /\ response.status = 200
    /\ response.result = 10
    /\ issued[response.service] = 10

\* C7: when the method raises, the handler answers with status 500 and the
\* exception's message as detail; the service and its app object stay as they
\* were, and every path of the service can still be requested.
C7_HandlerErrorContained ==
    /\ [](response.status \in {0, 200, 500})
    /\ [](\A s \in 1..Len(services) :
            (response.service = s /\ response.status = 500 /\ services[s].state = "ready") =>
                \A i \in 1..Len(services[s].routes) :
                    services[s].routes[i].path # "/increment" =>
                        ENABLED handler(s, services[s].routes[i].path, 2))
    /\ [][\A s \in 1..MaxServices, path \in Paths, value \in Values :
            LET route == RouteFor(services[s], path)
                obj == instances[route.captured_instance]
                run == RunBody(classes[obj.cls].methods[route.captured_method_name].body,
                               obj.attrs, value)
            IN  (handler(s, path, value) /\ run.raised) =>
                    /\ response'.status = 500
                    /\ response'.detail = run.message
                    /\ services' = services
                    /\ services'[s].state = "ready"
                    /\ instances'[route.captured_instance].cls = obj.cls]_vars

\* a failing request on a service whose counter has been incremented
C7_Witness ==
    /\ response.status = 500
    /\ response.detail = "boom"
    /\ response.path = "/failing"
    /\ services[response.service].state = "ready"
    /\ issued[response.service] > 0

\* C8: validate_app reports the cause of the first failing stage in the order
\* app marking, endpoints present, per-endpoint checks, duplicate paths, and
\* returns normally exactly when no stage fails.
C8_StageOrder ==
    validated.cls # None =>
        /\ validated.outcome.exc \in {"ok", "EndpointValidationError"}
        /\ StageOfCause(validated.outcome) = FirstFailingStage(classes[validated.cls])

\* a decorated class with an ill-typed endpoint and a duplicated path reports the type error
C8_Witness ==
    /\ validated.cls # None
    /\ classes[validated.cls].jlserve_app
    /\ \E m \in EndpointsOf(classes[validated.cls]) : IllTyped(m)
    /\ SharesPath(classes[validated.cls])
    /\ StageOfCause(validated.outcome) = 3

\* the error names a path and two different endpoint methods of the class that both have it
NamesSharedPath(outcome, cls) ==
    /\ outcome.exc = "EndpointValidationError"
    /\ outcome.cause = "Duplicate endpoint path"
    /\ \E a, b \in EndpointsOf(cls) :
          /\ a # b
          /\ a.jlserve_endpoint_path = outcome.subject
          /\ b.jlserve_endpoint_path = outcome.subject
          /\ outcome.detail = a.name
          /\ outcome.other = b.name

\* C9: a class in which two endpoint methods resolve to one path fails
\* validate_app, the duplicate-path check names that path and both methods, and
\* a class that passes validate_app has pairwise distinct endpoint paths.
C9_NoDuplicatePaths ==
    validated.cls # None =>
        LET cls == classes[validated.cls]
        IN  /\ SharesPath(cls) =>
                  /\ validated.outcome.exc = "EndpointValidationError"
                  /\ NamesSharedPath(validate_no_duplicate_paths(cls), cls)
                  /\ FirstFailingStage(cls) = 4 => NamesSharedPath(validated.outcome, cls)
            /\ validated.outcome.exc = "ok" => ~SharesPath(cls)

\* an explicit path that equals another method's default path
C9_Witness ==
    /\ validated.cls # None
    /\ validated.outcome =
          EndpointValidationError("Duplicate endpoint path", "/m1", "m1", "m2")
    /\ \E a, b \in EndpointsOf(classes[validated.cls]) :
          a.name = "m1" /\ b.name = "m2" /\ a.jlserve_endpoint_path = "/" \o a.name

\* C10: a requirements argument that is neither None nor a list is rejected with
\* a ValueError naming its type; a list with an element that is not a string, or
\* is a string of whitespace only, is rejected with a ValueError naming the
\* lowest such index, and the element's type when it is not a string.
C10_RequirementsRejected ==
    LET req == closure[MainThread].requirements
        res == result[MainThread]
    IN  closure[MainThread].state = "applied" =>
            /\ req.t \notin {"NoneType", "list"} => res = ValueErrorNotList(req.t)
            /\ (req.t = "list" /\ Offending(req.elts) # {}) =>
                  LET k == Lowest(Offending(req.elts))
                  IN  IF req.elts[k].t # "str"
                      THEN res = ValueErrorNotString(k - 1, req.elts[k].t)
                      ELSE res = ValueErrorEmpty(k - 1)

\* requirements=["torch", "", "numpy"] is rejected naming index 1
C10_Witness ==
    /\ closure[MainThread].state = "applied"
    /\ closure[MainThread].requirements =
          PyList(<<PyStr(<<"t">>), PyStr(<<>>), PyStr(<<"n">>)>>)
    /\ result[MainThread] = ValueErrorEmpty(1)

\* C11 as stated: validate_app passes its first check only for the class the
\* registry holds now, and fails it for every other class.
C11_PassesOnlyRegistered ==
    [][\A c \in ClassNames :
          ValidateApp(c) =>
              (StageOfCause(validated'.outcome) # 1 <=> registered_app = c)]_vars

\* C11 as amended: validate_app passes its first check exactly for a class that
\* carries the app marking.  The marking is set only by the decorator call that
\* registers the class and is kept when the registry is reset, so a class that
\* was registered and then cleared still passes, and a class that was never
\* registered fails with "must be decorated with @jlserve.app()".
C11_PassesWhenMarked ==
    /\ [](registered_app # None => classes[registered_app].jlserve_app)
    /\ [][\A c \in ClassNames :
            /\ (~classes[c].jlserve_app /\ classes'[c].jlserve_app) => registered_app' = c
            /\ classes[c].jlserve_app => classes'[c].jlserve_app
            /\ ValidateApp(c) =>
                  IF classes[c].jlserve_app
                  THEN StageOfCause(validated'.outcome) # 1
                  ELSE validated'.outcome =
                           EndpointValidationError("must be decorated with @jlserve.app()",
                                                   classes[c].name, "", "")]_vars

\* a class registered earlier and since cleared by reset passes validate_app
C11_Witness ==
    /\ registered_app = None
    /\ validated.cls = "FirstApp"
    /\ validated.outcome = Valid

\* the class statements of the file in source order, each with its nesting depth
RECURSIVE SourceOrder(_, _)
SourceOrder(stmts, depth) ==
    IF stmts = <<>> THEN <<>>
    ELSE (IF Head(stmts).kind = "ClassDef"
          THEN <<[name |-> Head(stmts).name, depth |-> depth,
                  decorator_list |-> Head(stmts).decorator_list]>>
          ELSE <<>>)
         \o SourceOrder(Head(stmts).body, depth + 1)
         \o SourceOrder(Tail(stmts), depth)

\* those that carry a decorator whose callee is named app
AppDecorated(f) ==
    SelectSeq(SourceOrder(f.body, 1),
              LAMBDA c : \E i \in 1..Len(c.decorator_list) :
                            is_jlserve_app_decorator(c.decorator_list[i]))

\* the requirements that the matching decorator of a class statement declares
DeclaredRequirements(c) ==
    extract_requirements_arg(
        SelectSeq(c.decorator_list, is_jlserve_app_decorator)[1])

\* the place, in source order, of the class the walk reaches first: a class of
\* the least depth, and the earliest of those
LeastDepthFirst(cs) ==
    CHOOSE i \in 1..Len(cs) :
        \A j \in 1..Len(cs) :
            \/ cs[i].depth < cs[j].depth
            \/ cs[i].depth = cs[j].depth /\ i <= j

\* C12 as stated: the extractor returns the requirements of the first
\* app-decorated class of the file in source order, nested or not.
C12_FirstInSourceOrder ==
    extracted.exc = "ok" =>
        extracted.value = IF AppDecorated(file) = <<>> THEN PyList(<<>>)
                          ELSE DeclaredRequirements(AppDecorated(file)[1])

\* C12 as amended: the extractor returns the requirements of the app-decorated
\* class that the breadth-first walk reaches first, which is the one of least
\* nesting depth and, among those of one depth, the first in source order; every
\* other app-decorated class is ignored, also when the chosen one declares no
\* requirements.  When all app-decorated classes stand at the top level this is
\* the first in source order.
C12_FirstInWalkOrder ==
    extracted.exc = "ok" =>
        LET cs == AppDecorated(file)
        IN  /\ extracted.value = IF cs = <<>> THEN PyList(<<>>)
                                 ELSE DeclaredRequirements(cs[LeastDepthFirst(cs)])
            /\ (cs # <<>> /\ \A i \in 1..Len(cs) : cs[i].depth = 1) =>
                  extracted.value = DeclaredRequirements(cs[1])

\* a class inside a function comes first in the file and declares ["n"]; the
\* top-level class after it declares none, and the extractor returns []
C12_Witness ==
    /\ extracted = Extracted(PyList(<<>>))
    /\ Len(AppDecorated(file)) = 2
    /\ AppDecorated(file)[1].depth = 2
    /\ DeclaredRequirements(AppDecorated(file)[1]) = PyList(<<PyStr(<<"n">>)>>)
    /\ AppDecorated(file)[2].depth = 1

\* C13 as stated: when the module registers an app, the extracted list is the
\* list stored on the registered class, however requirements is written.
C13_ExtractedIsStored ==
    (extracted.exc = "ok" /\ loaded.exc = "ok") =>
        extracted.value = classes[registered_app].jlserve_requirements

\* the decorator that the extractor selects
SelectedClass(f) == AppDecorated(f)[LeastDepthFirst(AppDecorated(f))]
SelectedDecorator(f) == SelectSeq(SelectedClass(f).decorator_list, is_jlserve_app_decorator)[1]

\* requirements is left out, or is a keyword whose value is a list display of
\* string constants
WrittenAsStringList(dec) ==
    /\ dec.node = "Call"
    /\ Len(dec.args) < 2
    /\ \A i \in 1..Len(dec.keywords) :
          dec.keywords[i].arg = "requirements" =>
              /\ dec.keywords[i].value.node = "List"
              /\ \A j \in 1..Len(dec.keywords[i].value.elts) :
                    /\ dec.keywords[i].value.elts[j].node = "Constant"
                    /\ dec.keywords[i].value.elts[j].value.t = "str"

\* C13 as amended: when the module registers an app, and the decorator that the
\* extractor selects is the jlserve app call on the registered class, and that
\* call leaves requirements out or gives it as a keyword whose value is a list
\* display of string literals, the extracted list is the stored list, element
\* for element.
C13_ExtractedIsStoredWhenLiteral ==
    (/\ extracted.exc = "ok"
     /\ loaded.exc = "ok"
     /\ AppDecorated(file) # <<>>
     /\ SelectedClass(file).name = registered_app
     /\ SelectedDecorator(file).node = "Call"
     /\ is_app_of_jlserve(SelectedDecorator(file).func)
     /\ WrittenAsStringList(SelectedDecorator(file)))
    => extracted.value = classes[registered_app].jlserve_requirements

\* @jlserve.app(requirements=["t", " n"]) is extracted and stored as ["t", " n"]
C13_Witness ==
    /\ loaded.exc = "ok"
    /\ extracted = Extracted(PyList(<<PyStr(<<"t">>), PyStr(<<" ", "n">>)>>))
    /\ classes[registered_app].jlserve_requirements = extracted.value
    /\ SelectedClass(file).name = registered_app

\* C14: a call of the extractor on a file that exists and parses returns the
\* requirements declared by the decorator it selects, also when running the
\* file would raise, and leaves the registry, the classes and the outcome of the
\* last load as they were.
C14_ExtractDoesNotExecute ==
    [][ExtractRequirements =>
          /\ registered_app' = registered_app
          /\ classes' = classes
          /\ loaded' = loaded
          /\ (file.exists /\ file.syntax_ok) =>
                extracted' = Extracted(IF AppDecorated(file) = <<>> THEN PyList(<<>>)
                                       ELSE DeclaredRequirements(SelectedClass(file)))]_vars

\* the import at the top of the file fails when the file is run; the extractor
\* still returns ["t", " n"] and the registry is empty
C14_Witness ==
    /\ file.body # <<>>
    /\ file.body[1].kind = "Import"
    /\ loaded.exc = "ImportError"
    /\ registered_app = None
    /\ extracted = Extracted(PyList(<<PyStr(<<"t">>), PyStr(<<" ", "n">>)>>))

\* C15: the extractor raises FileNotFoundError for a missing file and
\* SyntaxError for a file that does not parse, and returns no list; a run of
\* dev on such a file exits with code 1, never reaches uvicorn.run and creates no
\* service.
C15_NoRecovery ==
    /\ [](extracted.exc \in {"none", "ok", "FileNotFoundError", "SyntaxError"})
    /\ [][ExtractRequirements =>
            /\ ~file.exists => extracted' = FileNotFoundError
            /\ (file.exists /\ ~file.syntax_ok) => extracted' = SyntaxError]_vars
    /\ [][(Dev /\ (~file.exists \/ (file.suffix = ".py" /\ ~file.syntax_ok))) =>
            /\ cli'.exit_code = 1
            /\ \A i \in 1..Len(cli'.steps) : cli'.steps[i] # "uvicorn.run"
            /\ services' = services]_vars

\* dev on the file of test_dev_handles_syntax_error_in_file, built and configured
C15_Witness ==
    /\ cli.command = "dev"
    /\ cli.exit_code = 1
    /\ cli.output = "Invalid Python syntax"
    /\ cli.steps[Len(cli.steps)] = "install_requirements"
    /\ extracted = SyntaxError
    /\ env.marker

\* C19: a run of build that loads an otherwise valid app without a
\* download_weights method stops at the validation step with exit code 1 and
\* the output "App validation failed" naming download_weights, creates no
\* object of the class and leaves the build marker unwritten.
C19_BuildValidatesDownloadWeights ==
    [][(/\ Build
        /\ Len(cli'.steps) >= 5
        /\ validate_app(classes'[registered_app']) = Valid
        /\ "download_weights" \notin DOMAIN classes'[registered_app'].methods)
       => /\ cli'.exit_code = 1
          /\ cli'.steps[Len(cli'.steps)] = "validate_app"
          /\ cli'.output = "App validation failed: must define a download_weights() method"
          /\ instances' = instances
          /\ env'.marker = env.marker]_vars

\* C16: over the life of one service, setup() is invoked on its app object at
\* most once, however often the startup sequence of the service is entered.
C16_SetupAtMostOnce ==
    \A s \in 1..Len(services) : instances[services[s].instance].setup_calls <= 1

\* C17: after a successful decoration every stored requirement is a non-empty
\* string in trimmed form (no leading or trailing whitespace), the stored list
\* keeps the supplied order, and it is empty when the argument was omitted or
\* was the empty list.
Registered(t) == closure[t].state = "applied" /\ result[t].exc = "ok"

StoredRequirements(t) == classes[result[t].cls].jlserve_requirements

SuppliedElements(t) ==
    IF closure[t].requirements.t = "list" THEN closure[t].requirements.elts ELSE <<>>

C17_StoredTrimmed ==
    Registered(MainThread) =>
        /\ StoredRequirements(MainThread).t = "list"
        /\ \A i \in 1..Len(StoredRequirements(MainThread).elts) :
              LET req == StoredRequirements(MainThread).elts[i] IN
                 /\ req.t = "str"
                 /\ req.s # <<>>
                 /\ req.s = strip(req.s)
        /\ Len(StoredRequirements(MainThread).elts) = Len(SuppliedElements(MainThread))
        /\ \A i \in 1..Len(SuppliedElements(MainThread)) :
              StoredRequirements(MainThread).elts[i].s
                  = strip(SuppliedElements(MainThread)[i].s)

\* C17 (amended): after a successful decoration every stored requirement is a
\* string that is not empty once trimmed, and it is stored exactly as it was
\* supplied, surrounding whitespace included; the stored list is the supplied
\* list, element by element in the supplied order, and it is the empty list
\* when the argument was omitted or was the empty list.
C17_StoredAsSupplied ==
    Registered(MainThread) =>
        /\ StoredRequirements(MainThread) = PyList(SuppliedElements(MainThread))
        /\ \A i \in 1..Len(StoredRequirements(MainThread).elts) :
              LET req == StoredRequirements(MainThread).elts[i] IN
                 /\ req.t = "str"
                 /\ strip(req.s) # <<>>

\* a list of two different requirements, one with leading whitespace, was stored
C17_Witness ==
    /\ Registered(MainThread)
    /\ closure[MainThread].requirements = PyList(<<PyStr(<<" ", "n">>), PyStr(<<"t">>)>>)
    /\ StoredRequirements(MainThread).elts = <<PyStr(<<" ", "n">>), PyStr(<<"t">>)>>

\* C18: reset clears the registry, so that get_registered_app returns None and
\* the next decoration of any class, the discarded one included, succeeds; and
\* reset changes nothing else: every class keeps its app marking, and every
\* method keeps its endpoint marking and its recorded path.
C18_ResetClearsOnlyRegistry ==
    [][ /\ reset_registry(MainThread) =>
              /\ get_registered_app' = None
              /\ classes' = classes
              /\ UNCHANGED nonRegVars
        /\ \A c \in ClassNames :
              ( /\ get_registered_app = None
                /\ AcceptableRequirements(MainThread)
                /\ decorator(MainThread, c) ) =>
                    /\ result'[MainThread] = Returned(c)
                    /\ get_registered_app' = c ]_vars

\* FirstApp was registered and discarded by a reset, SecondApp was registered
\* next, and the handlers of FirstApp still carry their markings and paths
C18_Witness ==
    /\ registered_app = "SecondApp"
    /\ result[MainThread] = Returned("SecondApp")
    /\ classes["FirstApp"].jlserve_app
    /\ classes["FirstApp"].methods = CycleClasses["FirstApp"].methods
    /\ \A n \in DOMAIN classes["FirstApp"].methods :
          classes["FirstApp"].methods[n].jlserve_endpoint

\* C20: validate_app in strict mode raises EndpointValidationError when setup
\* or download_weights is missing, is not callable, accepts a parameter other
\* than self, or is annotated to return something other than None; it passes
\* an otherwise valid app whose two hooks take only self and return None; and
\* the error for an extra parameter reports the parameters found.
HookAcceptable(cls, hook) ==
    /\ hook \in DOMAIN cls.methods
    /\ cls.methods[hook].body # "not a method"
    /\ cls.methods[hook].params = <<"self">>
    /\ "return" \in DOMAIN cls.methods[hook].hints => cls.methods[hook].hints["return"] = "None"

C20_StrictValidatesBothHooks ==
    [][\A c \in ClassNames :
          (ValidateAppStrict(c) /\ validate_app(classes[c]) = Valid) =>
              /\ validated'.outcome = Valid
                    <=> (HookAcceptable(classes[c], "setup")
                            /\ HookAcceptable(classes[c], "download_weights"))
              /\ validated'.outcome # Valid =>
                    /\ validated'.outcome.exc = "EndpointValidationError"
                    /\ \A hook \in {"setup", "download_weights"} :
                          validated'.outcome.cause = hook \o "() must only accept 'self'"
                              => validated'.outcome.detail = classes[c].methods[hook].params
    ]_vars

\* C21: a decoration that raises, with MultipleAppsError or with the ValueError
\* of the requirements check, changes nothing: the registry holds what it held
\* and no class attribute is set, so a class that carried no app marking
\* carries none afterwards (no marking, no name, no requirements) and
\* validate_app on it fails as not decorated.
NotDecorated(c) ==
    EndpointValidationError("must be decorated with @jlserve.app()", classes[c].name, "", "")

C21_FailedRegisterChangesNothing ==
    [][\A c \in ClassNames :
          (decorator(MainThread, c) /\ result'[MainThread].exc # "ok") =>
              /\ get_registered_app' = get_registered_app
              /\ classes' = classes
              /\ ~classes[c].jlserve_app =>
                    /\ ~classes'[c].jlserve_app
                    /\ classes'[c].jlserve_app_name = None
                    /\ classes'[c].jlserve_requirements = PyNone
                    /\ validate_app(classes'[c]) = NotDecorated(c)]_vars

\* SecondApp was rejected for its requirements argument while the registry was
\* empty, and a later validate_app on it failed as not decorated
C21_Witness ==
    /\ registered_app = None
    /\ closure[MainThread].state = "applied"
    /\ result[MainThread].exc = "ValueError: requirements[i] must be a non-empty string"
    /\ ~classes["FirstApp"].jlserve_app
    /\ ~classes["SecondApp"].jlserve_app
    /\ validated = [cls |-> "SecondApp", outcome |-> NotDecorated("SecondApp")]

\* C22: for an endpoint method the validator reports the first failing check
\* in the order: no input parameter beyond self, input parameter without a
\* type hint, return type hint missing, input type not a Pydantic model,
\* return type not a Pydantic model; the method reported is the first one, in
\* the order the methods are examined, that fails any check.
FirstFailingCheck(m) ==
    IF Len(m.params) < 2 THEN "must accept an input parameter with a type hint"
    ELSE IF m.params[2] \notin DOMAIN m.hints THEN "must have a type hint for input parameter"
    ELSE IF "return" \notin DOMAIN m.hints THEN "must have a return type hint"
    ELSE IF m.hints[m.params[2]] \notin PydanticModels
    THEN "input type must be a Pydantic BaseModel subclass"
    ELSE IF m.hints["return"] \notin PydanticModels
    THEN "return type must be a Pydantic BaseModel subclass"
    ELSE ""

C22_FirstFailingCheck ==
    (validated.cls # None /\ StageOfCause(validated.outcome) = 3) =>
        LET examined == get_endpoint_methods(classes[validated.cls])
        IN  \E i \in 1..Len(examined) :
               /\ validated.outcome.subject = examined[i].name
               /\ validated.outcome.cause = FirstFailingCheck(examined[i])
               /\ \A j \in 1..(i - 1) : FirstFailingCheck(examined[j]) = ""

\* a handler with a primitive input type and no return hint was reported for
\* the missing return hint, after a handler that passes every check
C22_Witness ==
    /\ validated.cls = "FirstApp"
    /\ validated.outcome.cause = "must have a return type hint"
    /\ validated.outcome.subject = "m2"
    /\ classes["FirstApp"].methods["m2"].hints = Hints("str", Absent)
    /\ "m1" \in DOMAIN classes["FirstApp"].methods
    /\ classes["FirstApp"].methods["m1"].jlserve_endpoint

\* C23: a run of dev takes its steps in the order extract requirements,
\* install, load the module, bind, start the server; `uv pip install` runs
\* exactly once when the extracted list is not empty and not at all when it is
\* empty; a step that fails ends the run with exit code 1 and no later step
\* runs, so the server is not started after a failed install or after a load
\* that finds no app or no endpoints.
C23_DevStepOrder ==
    [][Dev =>
        LET n == Len(cli'.steps)
            nonempty == extracted'.exc = "ok" /\ extracted'.value.elts # <<>>
        IN  /\ cli'.steps = SubSeq(DevSteps, 1, n)
            /\ DevSteps[4] = "install_requirements" /\ DevSteps[5] = "load_app_class"
            /\ DevSteps[7] = "create_app" /\ DevSteps[8] = "uvicorn.run"
            /\ cli'.exit_code = IF n = 8 THEN 0 ELSE 1
            /\ cli'.uv_calls = IF n >= 4 /\ nonempty THEN 1 ELSE 0
            \* a step that was not reached left nothing behind
            /\ n < 4 => extracted' = extracted
            /\ n < 5 => UNCHANGED <<registered_app, classes, loaded>>
            /\ n < 8 => UNCHANGED <<services, instances>>
            /\ n = 8 => Len(services') = Len(services) + 1
            \* the failures that end the run
            /\ (n >= 4 /\ extracted'.exc # "ok") => n = 4
            /\ (n >= 4 /\ nonempty /\ env.uv # "ok") => n = 4
            /\ (n >= 5 /\ loaded'.exc # "ok") => n = 5
            /\ (n >= 6 /\ EndpointsOf(classes'[registered_app']) = {}) => n = 6]_vars

\* a run of dev that installed once, loaded, bound and started the server; and
\* this is a state dev reached after extraction found two requirements
C23_Witness ==
    /\ cli.command = "dev"
    /\ cli.steps = DevSteps
    /\ cli.exit_code = 0
    /\ cli.uv_calls = 1
    /\ Len(extracted.value.elts) = 2
    /\ Len(services) = 1

\* C24: unless the cache directory is configured and the build marker exists,
\* a run of dev installs nothing, does not extract from or load the user's
\* module, binds nothing and does not start the server; it exits with code 1
\* at the cache check or at the marker check.
C24_DevRequiresBuild ==
    [][(Dev /\ ~(env.cache_dir /\ env.marker)) =>
          /\ cli'.exit_code = 1
          /\ Len(cli'.steps) <= 3
          /\ \A i \in 1..Len(cli'.steps) :
                cli'.steps[i] \notin {"install_requirements", "load_app_class",
                                      "create_app", "uvicorn.run"}
          /\ cli'.uv_calls = 0
          /\ cli'.output \in {"File not found", "File must be a Python file",
                              "JLSERVE_CACHE_DIR must be set", "Build marker not found"}
          /\ UNCHANGED <<extracted, registered_app, classes, loaded, services, instances>>]_vars

\* dev stopped at the marker check, having loaded nothing, in an environment
\* where uv works and the cache directory is configured
C24_Witness ==
    /\ cli.command = "dev"
    /\ cli.exit_code = 1
    /\ cli.output = "Build marker not found"
    /\ cli.steps = <<"validate_python_file", "get_jlserve_cache_dir", "marker_file.exists">>
    /\ env.cache_dir /\ ~env.marker /\ env.uv = "ok"
    /\ file.exists /\ file.syntax_ok
    /\ loaded = NoLoad
    /\ services = <<>>

\* C25: build writes the build-complete marker only as its last step: only
\* when the file check, the cache configuration, the install, the load, the
\* app validation and download_weights() have all succeeded; a run in which
\* one of them fails exits with code 1 and leaves the marker as it was.
DownloadSucceeds(cls) ==
    /\ "download_weights" \in DOMAIN cls.methods
    /\ cls.methods["download_weights"].body \notin {"not a method", "download_raises"}
    /\ cls.methods["download_weights"].params = <<"self">>

C25_MarkerLast ==
    [][Build =>
        LET n == Len(cli'.steps)
        IN  /\ cli'.steps = SubSeq(BuildSteps, 1, n)
            /\ BuildSteps[Len(BuildSteps)] = "marker_file.touch"
            /\ cli'.exit_code = IF n = Len(BuildSteps) THEN 0 ELSE 1
            /\ n < Len(BuildSteps) => env' = env
            /\ n = Len(BuildSteps) =>
                  /\ env' = [env EXCEPT !.marker = TRUE]
                  /\ file.exists /\ file.suffix = ".py"
                  /\ env.cache_dir
                  /\ extracted'.exc = "ok"
                  /\ extracted'.value.elts # <<>> => (cli'.uv_calls = 1 /\ env.uv = "ok")
                  /\ loaded'.exc = "ok"
                  /\ validated' = [cls |-> registered_app', outcome |-> Valid]
                  /\ DownloadSucceeds(classes'[registered_app'])]_vars

\* a build whose download_weights() raised: exit code 1 and no marker
C25_Witness ==
    /\ cli.command = "build"
    /\ cli.exit_code = 1
    /\ cli.output = "download_weights() failed: Network error downloading model"
    /\ Len(cli.steps) = 7
    /\ ~env.marker

\* C26: load_app_class empties the registry before it executes the module, so
\* a load in a process that has loaded before (a build followed by a dev, or
\* any later command) succeeds for a file with a single app exactly as the
\* first load does, with no MultipleAppsError; and the class a load returns is
\* the one the current load registered: it is the registry's value after the
\* load and it is a class of the file.
SingleAppFile(f) ==
    /\ f.exists /\ f.suffix = ".py" /\ f.syntax_ok
    /\ Len(f.body) = 1
    /\ f.body[1].kind = "ClassDef"
    /\ Len(f.body[1].decorator_list) = 1
    /\ f.body[1].decorator_list[1].node = "Call"
    /\ f.body[1].decorator_list[1].func = Attribute("jlserve", "app")

LoadStepOf(command) == IF command = "dev" THEN 5 ELSE 4

C26_LoadCycles ==
    [][((Dev \/ Build) /\ Len(cli'.steps) >= LoadStepOf(cli'.command)) =>
          /\ SingleAppFile(file) =>
                /\ loaded'.exc = "ok"
                /\ loaded'.cls = file.body[1].name
          /\ loaded'.exc # "ok" => loaded'.error.exc # "MultipleAppsError"
                                      \/ Len(file.body) > 1
          /\ loaded'.exc = "ok" =>
                /\ get_registered_app' = loaded'.cls
                /\ \E i \in 1..Len(file.body) : file.body[i].name = loaded'.cls
                /\ classes'[loaded'.cls].jlserve_app]_vars

\* a dev run that loaded and served the app after a build run had loaded the
\* same file in the same process: one object from each run
C26_Witness ==
    /\ cli.command = "dev"
    /\ cli.steps = DevSteps
    /\ loaded.exc = "ok"
    /\ registered_app = loaded.cls
    /\ Len(instances) = 2
    /\ Len(services) = 1

\* the endpoint methods of a class, as its body declares them
DeclaredEndpoints(cls) ==
    {cls.methods[n] : n \in {k \in DOMAIN cls.methods : cls.methods[k].jlserve_endpoint}}

\* C27: a bound service has exactly one route per endpoint method of its class,
\* keyed by the method's resolved path (Calculator.multiply, declared with the
\* override "/scale", is served at "/scale" and not at "/multiply"), and a
\* request to a path runs the body of the method that declared that path on
\* the service's app object.
C27_OneRoutePerEndpoint ==
    /\ [](\A s \in 1..Len(services) :
            LET declared == DeclaredEndpoints(classes[services[s].cls])
                routes == services[s].routes
            IN  /\ Len(routes) = Cardinality(declared)
                /\ \A m \in declared :
                      Cardinality({i \in 1..Len(routes) :
                                      routes[i].path = m.jlserve_endpoint_path}) = 1
                /\ services[s].cls = "Calculator" =>
                      {routes[i].path : i \in 1..Len(routes)} = {"/failing", "/scale"})
    /\ [][\A s \in 1..MaxServices, path \in Paths, value \in Values :
            handler(s, path, value) =>
                LET declared == DeclaredEndpoints(classes[services[s].cls])
                    declaring == CHOOSE m \in declared : m.jlserve_endpoint_path = path
                    out == RunBody(declaring.body, instances[services[s].instance].attrs, value)
                IN  /\ response'.status = IF out.raised THEN 500 ELSE 200
                    /\ ~out.raised => response'.result = out.result
                    /\ out.raised => response'.detail = out.message
                    /\ instances'[services[s].instance].attrs = out.self]_vars

\* a service with two routes answered the request to the overridden path
C27_Witness ==
    /\ response.service \in 1..Len(services)
    /\ services[response.service].cls = "Calculator"
    /\ Len(services[response.service].routes) = 2
    /\ response.path = "/scale"
    /\ response.status = 200
    /\ response.result = 50
    /\ issued[response.service] = 0
    /\ bound.outcome = Valid
\* the requests of service s whose handler body has been entered and has not returned
Running(s) == {r \in Requests : inflight[r].service = s /\ inflight[r].state = "running"}

RECURSIVE StringLiterals(_)
StringLiterals(elts) ==
    IF elts = <<>> THEN <<>>
    ELSE (IF Head(elts).node = "Constant" /\ Head(elts).value.t = "str"
          THEN <<Head(elts).value>> ELSE <<>>) \o StringLiterals(Tail(elts))

\* C29: the extractor returns the string literals of the list display given as
\* the requirements keyword of the matched decorator, in their order and without
\* the elements that are not string literals; it returns the empty list when no
\* class has a matching decorator, when the decorator is a bare reference, when
\* it has no requirements keyword, and when the keyword's value is not a list
\* display.
C29_StringLiteralsInOrder ==
    extracted.exc = "ok" =>
        IF AppDecorated(file) = <<>> THEN extracted.value = PyList(<<>>)
        ELSE LET dec == SelectedDecorator(file)
                 named == IF dec.node = "Call"
                          THEN {i \in 1..Len(dec.keywords) : dec.keywords[i].arg = "requirements"}
                          ELSE {}
             IN  IF named = {} THEN extracted.value = PyList(<<>>)
                 ELSE LET given == dec.keywords[CHOOSE i \in named : TRUE].value
                      IN  IF given.node # "List" THEN extracted.value = PyList(<<>>)
                          ELSE extracted.value = PyList(StringLiterals(given.elts))

\* @app(requirements=["t", 123]) was extracted as ["t"]
C29_Witness ==
    /\ extracted = Extracted(PyList(<<PyStr(<<"t">>)>>))
    /\ AppDecorated(file) # <<>>
    /\ SelectedDecorator(file).node = "Call"
    /\ Len(SelectedDecorator(file).keywords) = 1
    /\ SelectedDecorator(file).keywords[1].arg = "requirements"
    /\ SelectedDecorator(file).keywords[1].value.node = "List"
    /\ Len(SelectedDecorator(file).keywords[1].value.elts) = 2
    /\ SelectedDecorator(file).keywords[1].value.elts[2].value.t = "int"
\* C30: when the execution of the module raises, load_app_class answers a
\* MultipleAppsError, and no other exception, with the printed error and exit
\* code 1; every other exception reaches the caller as it was raised, whatever
\* its message says.
C30_OnlyMultipleAppsExits ==
    loaded # NoLoad =>
        LET raised == exec_module(file).exc
        IN  raised # NoResult =>
                IF raised.exc = "MultipleAppsError"
                THEN loaded = Exit(1, raised)
                ELSE /\ loaded.exc = raised.exc
                     /\ loaded.exc # "typer.Exit"
                     /\ loaded.error = raised
====
